---- MODULE Spec2Model ----
(***************************************************************************)
(* Monitoring & incident engine of the uptime monitor (src/src/monitor.ts, *)
(* src/src/notify.ts) as a state machine.                                  *)
(*                                                                         *)
(* The program is one Node.js process.  Code between two `await`s runs     *)
(* atomically; every `await` is a point where other callbacks (timers,     *)
(* HTTP handlers, other sites' checks) interleave.  Each action below is   *)
(* one such atomic piece: the continuation that runs when the awaited      *)
(* operation (a timer, a database call, the HTTP probe) completes, up to   *)
(* the next await.  A database call takes effect when its continuation     *)
(* runs.                                                                   *)
(*                                                                         *)
(* A "chain" is one setTimeout -> scheduleCheck -> performCheck -> rearm   *)
(* loop.  The code has no object for it; the model keeps one record per    *)
(* live chain (MaxChains slots) holding the position in the code and the   *)
(* locals that are alive across awaits.                                    *)
(***************************************************************************)
EXTENDS Integers, Sequences, FiniteSets, TLC

\* ------------------------------------------------------------------ bounds
MaxChains   == 2    \* timer chains alive at once
MaxCalls    == 2    \* startMonitor calls awaiting their findMany at once
MaxChecks   == 3    \* Check rows written in one behaviour
MaxFailures == 1    \* persistence failures injected in one behaviour
MaxNow      == 1    \* clock ticks (seconds) in one behaviour
MaxLeaked   == 1    \* setInterval timers no longer referenced by cleanupTimer
MaxOldRows  == 4    \* Check rows in the table when the retention job runs
MaxAge      == 2    \* seconds beyond the retention window at that time

Sites  == {1, 2} \* website ids, in the order findMany returns the rows
Seeded == {1}    \* the ids in use where one site is monitored
Chains == 1..MaxChains

NoTimer == 0        \* no entry under a key of the timers map
NoTime  == -1       \* resolvedAt / duration / lastCheckedAt is null
NoCode  == 0        \* statusCode is null: the probe got no response
NoMs    == -1       \* lastResponseMs is null
NoText  == "null"   \* errorMessage is null

RetentionSeconds == 7776000    \* 90 * 24 * 60 * 60 (monitor.ts:150)
DefaultInterval  == 60         \* checkInterval of a site created without one

VARIABLES
  website,        \* the Website table: id -> row, or NoRow once deleted
  checks,         \* the Check table: websiteId -> its rows, in insertion order
  incidents,      \* the Incident table: websiteId -> its rows, in startedAt order
  timers,         \* monitor.ts:6, key -> chain whose pending timer the handle is
  cleanupTimer,   \* monitor.ts:7, TRUE when a setInterval handle is held
  leaked,         \* live setInterval timers whose handle was overwritten
  chain,          \* the timer chains: position in the code and live locals
  calls,          \* startMonitor calls suspended at `await findMany` (line 11)
  stopped,        \* TRUE from a stopMonitor() call until the next startMonitor()
  notified,       \* the Notifier invocations: websiteId -> events, in order
  failures,       \* persistence operations that have thrown
  now,            \* the clock, in seconds
  invocation,     \* a call of one of the Notifier's or the Scheduler's
                  \* functions taken on its own: name, arguments and result
  wa              \* whatsapp.ts: the module's variables and its sockets

vars == <<website, checks, incidents, timers, cleanupTimer, leaked, chain,
          calls, stopped, notified, failures, now, invocation, wa>>

\* whatsapp.ts, lines 14-18: the module as it is loaded.  `sock` is 0 for
\* null or the number of the socket held; `live` are the sockets made and
\* not yet closed; `connects` counts the connectWA() calls that have not yet
\* made their socket, `retries` the pending timers of line 85, and `made`
\* the sockets made so far; `logout` is TRUE while disconnect() awaits
\* sock.logout().
Unused ==
  [state |-> "disconnected", connectedNumber |-> "null", currentQR |-> FALSE,
   shouldReconnect |-> TRUE, sock |-> 0, live |-> {}, connects |-> 0,
   retries |-> 0, made |-> 0, logout |-> FALSE]

\* No function is being evaluated on its own.
NoInvocation == [fn |-> "none", args |-> <<>>, returned |-> FALSE, result |-> <<>>]

\* --------------------------------------------------------------- the tables
\* A Website row, as far as the engine reads or writes it.
WebsiteRow(active, last) ==
  [exists |-> TRUE, isActive |-> active, lastStatus |-> last,
   lastCheckedAt |-> NoTime, lastResponseMs |-> NoMs,
   checkInterval |-> DefaultInterval]

\* What findUnique gives for an id whose row was deleted: null.
NoRow == [exists |-> FALSE, isActive |-> FALSE, lastStatus |-> "unknown",
          lastCheckedAt |-> NoTime, lastResponseMs |-> NoMs,
          checkInterval |-> 0]

\* A Check row (prisma.check.create, monitor.ts:101-103); checkedAt is the
\* table's default, the time of the insert.
CheckRowStampedAtStart(st, code, ms, err, t) ==
  [status |-> st, statusCode |-> code, responseTime |-> ms,
   errorMessage |-> err, checkedAt |-> t - ms]
CheckRow(st, code, ms, err, t) ==
  [status |-> st, statusCode |-> code, responseTime |-> ms,
   errorMessage |-> err, checkedAt |-> t]

\* An Incident row as created at monitor.ts:121: startedAt is the table's
\* default (the time of the insert), resolvedAt and duration are null.
NewIncident(t) ==
  [startedAt |-> t, resolvedAt |-> NoTime, duration |-> NoTime,
   downNotified |-> TRUE, upNotified |-> FALSE]

\* The keys of the timers map: `init-<id>` (line 25) and `<id>` (line 61).
Keys == {"init", "next"} \X Sites

\* ------------------------------------------------------------- the chains
\* Positions of a chain: "none" (slot unused), "armed" (setTimeout pending)
\* and the awaits of scheduleCheck / performCheck, named after the call
\* awaited.
PerformPcs == {"pc_find", "fetch", "check_create", "site_update", "inc_create",
               "fresh_down", "notify_down", "inc_find", "inc_update",
               "fresh_up", "notify_up"}
RunningPcs == {"sc_find"} \cup PerformPcs

\* Locals: interval (website.checkInterval as read at line 48), prev
\* (previousStatus), status, code (statusCode), ms
\* (responseTime), err (errorMessage), inc (the Incident created or found),
\* dur (duration), at (the `new Date()` of the update being awaited); base
\* and ev are history: the number of Incidents the site had when the check
\* began, and the place of the check's Notifier invocation in `notified`.
\* delay is the delay, in milliseconds, the pending timer was armed with.
Idle == [pc |-> "none", site |-> 0, key |-> "none", prev |-> "none",
         status |-> "none", code |-> NoCode, ms |-> 0, err |-> NoText,
         inc |-> 0, dur |-> 0, at |-> 0, base |-> 0, ev |-> 0,
         interval |-> 0, delay |-> 0]

\* A chain waiting on the timer armed under key <<k, s>>.
Armed(k, s) == [Idle EXCEPT !.pc = "armed", !.site = s, !.key = k]

\* The same, with the delay given to setTimeout.
ArmedFor(k, s, d) == [Armed(k, s) EXCEPT !.delay = d]

FreeSlots == {c \in Chains : chain[c].pc = "none"}

RECURSIVE SortedSeq(_)
SortedSeq(S) ==
  IF S = {} THEN <<>>
  ELSE LET m == CHOOSE x \in S : \A y \in S : x <= y
       IN <<m>> \o SortedSeq(S \ {m})

\* The handle stored under key k is a timer that has not fired yet.
Live(k) ==
  /\ timers[k] # NoTimer
  /\ chain[timers[k]].pc = "armed"
  /\ chain[timers[k]].key = k[1]
  /\ chain[timers[k]].site = k[2]

TypeOK ==
  /\ \A s \in Sites :
       /\ website[s].exists \in BOOLEAN
       /\ website[s].isActive \in BOOLEAN
       /\ website[s].lastStatus \in {"unknown", "up", "down"}
       /\ ~website[s].exists => website[s] = NoRow
  /\ \A s \in Sites : Len(checks[s]) <= MaxChecks
  /\ timers \in [Keys -> Chains \cup {NoTimer}]
  /\ cleanupTimer \in BOOLEAN
  /\ leaked \in 0..MaxLeaked
  /\ calls \in 0..MaxCalls
  /\ stopped \in BOOLEAN
  /\ failures \in 0..MaxFailures
  /\ now \in 0..MaxNow

\* The state when main() has called startMonitor(), which is suspended at
\* its findMany: the seed script has inserted the sites (active, never
\* checked) and no timer exists.
Init ==
  /\ website = [s \in Sites |-> IF s \in Seeded THEN WebsiteRow(TRUE, "unknown")
                                   ELSE NoRow]
  /\ checks = [s \in Sites |-> <<>>]
  /\ incidents = [s \in Sites |-> <<>>]
  /\ timers = [k \in Keys |-> NoTimer]
  /\ cleanupTimer = FALSE
  /\ leaked = 0
  /\ chain = [c \in Chains |-> Idle]
  /\ calls = 1
  /\ stopped = FALSE
  /\ notified = [s \in Sites |-> <<>>]
  /\ failures = 0
  /\ now = 0
  /\ invocation = NoInvocation
  /\ wa = Unused

\* ------------------------------------------------- startMonitor, stopMonitor
\* stopMonitor's clearTimeout loop (lines 37-38): every chain whose pending
\* timer is held in the map is cancelled.
StopChains ==
  [c \in Chains |->
     IF \E k \in Keys : timers[k] = c /\ Live(k) THEN Idle ELSE chain[c]]

\* stopMonitor() (lines 36-44), called on its own.
StopMonitor ==
  /\ chain' = StopChains
  /\ timers' = [k \in Keys |-> NoTimer]
  /\ cleanupTimer' = FALSE
  /\ stopped' = TRUE
  /\ UNCHANGED <<website, checks, incidents, leaked, calls, notified,
                 failures, now,
                 invocation, wa>>

\* startMonitor() up to its first await (lines 10-11): stopMonitor(), then
\* the findMany is issued.
StartMonitorCall ==
  /\ calls < MaxCalls
  /\ calls' = calls + 1
  /\ chain' = StopChains
  /\ timers' = [k \in Keys |-> NoTimer]
  /\ cleanupTimer' = FALSE
  /\ stopped' = FALSE

\* ------------------------------------------- the arithmetic of lines 19-23
\* JavaScript numbers are IEEE-754 doubles.  A positive double is kept as
\* [m, e]: m holds the 53 bits of the significand, most significant first
\* (m[1] = 1), and the value is (0.m[1] m[2] ... m[53])_2 * 2^e.  Results
\* are rounded to nearest, ties to even.  Long division and multiplication
\* go by limbs of LimbBits bits, so that every intermediate integer stays
\* below 2^31.
Precision == 53
LimbBits  == 13
Limb      == 2 ^ LimbBits

Zero == [m |-> <<>>, e |-> 0]

\* The number of binary digits of a natural number below 2^31.
BitLen(n) ==
  IF n = 0 THEN 0
  ELSE CHOOSE k \in 1..31 : 2 ^ (k - 1) <= n /\ (k = 31 \/ n < 2 ^ k)

\* The binary digits of a natural number, most significant first.
BitsOf(n) == [j \in 1..BitLen(n) |-> (n \div 2 ^ (BitLen(n) - j)) % 2]

\* The w binary digits of a natural number below 2^w.
Digits(n, w) == [j \in 1..w |-> (n \div 2 ^ (w - j)) % 2]

\* The natural number whose binary digits are b (at most 31 of them).
RECURSIVE ValueOf(_)
ValueOf(b) ==
  IF b = <<>> THEN 0
  ELSE IF Len(b) = 1 THEN b[1]
  ELSE LET h == Len(b) \div 2
       IN ValueOf(SubSeq(b, 1, h)) * 2 ^ (Len(b) - h)
            + ValueOf(SubSeq(b, h + 1, Len(b)))

\* The first k limbs of r / n after the point (r < n < 2^18), as binary
\* digits, and the remainder left after them.
RECURSIVE FracBits(_, _, _)
FracBits(r, n, k) ==
  IF k = 0 THEN [bits |-> <<>>, rem |-> r]
  ELSE LET rest == FracBits((r * Limb) % n, n, k - 1)
       IN [bits |-> Digits((r * Limb) \div n, LimbBits) \o rest.bits,
           rem |-> rest.rem]

\* b + 1 on binary digits; one digit longer when b is all ones.
Incr(b) ==
  IF \A j \in 1..Len(b) : b[j] = 1
  THEN <<1>> \o [j \in 1..Len(b) |-> 0]
  ELSE LET p == CHOOSE j \in 1..Len(b) :
                  b[j] = 0 /\ \A i \in (j + 1)..Len(b) : b[i] = 1
       IN [j \in 1..Len(b) |-> IF j < p THEN b[j] ELSE IF j = p THEN 1 ELSE 0]

\* b without its leading zeros.
Normal(b) ==
  IF \A j \in 1..Len(b) : b[j] = 0 THEN <<>>
  ELSE SubSeq(b, CHOOSE j \in 1..Len(b) :
                   b[j] = 1 /\ \A i \in 1..(j - 1) : b[i] = 0, Len(b))

\* The double nearest to (0.b)_2 * 2^e, for digits b with b[1] = 1 and at
\* least 53 of them; sticky says that non-zero digits follow b.
RoundToDouble(b, sticky, e) ==
  LET kept  == SubSeq(b, 1, Precision)
      guard == IF Len(b) > Precision THEN b[Precision + 1] ELSE 0
      more  == sticky \/ \E i \in (Precision + 2)..Len(b) : b[i] = 1
      up    == guard = 1 /\ (more \/ kept[Precision] = 1)
      next  == Incr(kept)
  IN IF ~up THEN [m |-> kept, e |-> e]
     ELSE IF Len(next) > Precision
          THEN [m |-> SubSeq(next, 1, Precision), e |-> e + 1]
          ELSE [m |-> next, e |-> e]

\* a / n for naturals a and n > 0, as a double.
RECURSIVE FDivScaled(_, _, _)
FDivScaled(a, n, shift) ==
  IF a < n THEN FDivScaled(2 * a, n, shift - 1)
  ELSE LET int  == BitsOf(a \div n)
           frac == FracBits(a % n, n, 5)
       IN RoundToDouble(int \o frac.bits, frac.rem # 0, Len(int) + shift)

FDiv(a, n) == IF a = 0 THEN Zero ELSE FDivScaled(a, n, 0)

\* The limbs of (l)_Limb * i + c, the carry out first.
RECURSIVE MulLimbs(_, _, _)
MulLimbs(l, i, c) ==
  IF l = <<>> THEN <<c>>
  ELSE LET t == l[Len(l)] * i + c
       IN Append(MulLimbs(SubSeq(l, 1, Len(l) - 1), i, t \div Limb), t % Limb)

\* The digits of (b)_2 * i, for 53 digits b and 0 < i < 2^17.
MulBits(b, i) ==
  LET pad   == [j \in 1..(5 * LimbBits - Precision) |-> 0] \o b
      limbs == [j \in 1..5 |->
                  ValueOf(SubSeq(pad, LimbBits * (j - 1) + 1, LimbBits * j))]
      prod  == MulLimbs(limbs, i, 0)
  IN Normal(BitsOf(prod[1]) \o Digits(prod[2], LimbBits)
              \o Digits(prod[3], LimbBits) \o Digits(prod[4], LimbBits)
              \o Digits(prod[5], LimbBits) \o Digits(prod[6], LimbBits))

\* i * x for a natural i and a double x, as a double.
FMul(i, x) ==
  IF i = 0 \/ x = Zero THEN Zero
  ELSE LET p == MulBits(x.m, i)
       IN RoundToDouble(p, FALSE, x.e + Len(p) - Precision)

\* Math.floor of a double below 2^31.
Floor(x) ==
  IF x = Zero \/ x.e <= 0 THEN 0 ELSE ValueOf(SubSeq(x.m, 1, x.e))

\* Math.min of a non-empty set of numbers (line 19).
MinOf(S) == CHOOSE x \in S : \A y \in S : x <= y

\* Lines 20 and 23: delayBetween = (minInterval * 1000) / websites.length,
\* initialDelay = Math.floor(index * delayBetween), in milliseconds.
InitialDelayUnstaggered(index, minInterval, count) == 0
InitialDelay(index, minInterval, count) ==
  Floor(FMul(index, FDiv(minInterval * 1000, count)))

\* The rows findMany({ where: { isActive: true } }) returns (line 11).
ActiveSites == {s \in Sites : website[s] # NoRow /\ website[s].isActive}

\* startMonitor() from the findMany result on (lines 13-33): nothing when no
\* site is active; else one `init-<id>` timer per active site, stored over
\* whatever the map holds under that key, and a new setInterval stored over
\* whatever cleanupTimer holds.
StartMonitorLoad ==
  /\ calls > 0
  /\ calls' = calls - 1
  /\ LET act  == SortedSeq(ActiveSites)
         free == SortedSeq(FreeSlots)
         n    == Len(act)
         slot == [i \in 1..n |-> free[i]]
         minInterval == MinOf({website[s].checkInterval : s \in ActiveSites})
     IN IF n = 0
        THEN UNCHANGED <<chain, timers, cleanupTimer, leaked>>
        ELSE /\ n <= Len(free)
             /\ chain' = [c \in Chains |->
                            IF \E i \in 1..n : slot[i] = c
                            THEN LET i == CHOOSE j \in 1..n : slot[j] = c
                                 IN ArmedFor("init", act[i],
                                             InitialDelay(i - 1, minInterval, n))
                            ELSE chain[c]]
             /\ timers' = [k \in Keys |->
                             IF k[1] = "init" /\ k[2] \in ActiveSites
                             THEN slot[CHOOSE i \in 1..n : act[i] = k[2]]
                             ELSE timers[k]]
             /\ cleanupTimer' = TRUE
             /\ leaked' = IF cleanupTimer THEN leaked + 1 ELSE leaked
             /\ leaked' <= MaxLeaked
  /\ UNCHANGED <<website, checks, incidents, stopped, notified, failures,
                 now,
                 invocation, wa>>

\* ----------------------------------------------------------- scheduleCheck
\* Check rows that are written or may still be written by the chains now
\* between their timer and their insert.
RECURSIVE Rows(_)
Rows(S) ==
  IF S = {} THEN 0
  ELSE LET s == CHOOSE x \in S : TRUE IN Len(checks[s]) + Rows(S \ {s})

Budgeted ==
  Rows(Sites) + Cardinality({c \in Chains :
                  chain[c].pc \in {"sc_find", "pc_find", "fetch", "check_create"}})

FireOneAtATime(c) ==
  /\ chain[c].pc = "armed"
  /\ \A d \in Chains : chain[d].pc # "fetch"
  /\ Budgeted < MaxChecks
  /\ chain' = [chain EXCEPT ![c].pc = "sc_find"]
  /\ timers' = [k \in Keys |-> IF timers[k] = c THEN NoTimer ELSE timers[k]]
  /\ UNCHANGED <<website, checks, incidents, cleanupTimer, leaked, calls,
                 stopped, notified, failures, now,
                 invocation, wa>>

\* A pending timer fires and calls scheduleCheck, which issues the findUnique
\* of line 48.  The fired handle stays in the map in the code; clearTimeout
\* of a fired handle does nothing, so the model drops the entry here.
Fire(c) ==
  /\ chain[c].pc = "armed"
  /\ Budgeted < MaxChecks
  /\ chain' = [chain EXCEPT ![c].pc = "sc_find"]
  /\ timers' = [k \in Keys |-> IF timers[k] = c THEN NoTimer ELSE timers[k]]
  /\ UNCHANGED <<website, checks, incidents, cleanupTimer, leaked, calls,
                 stopped, notified, failures, now,
                 invocation, wa>>

\* Line 49: `!website || !website.isActive`.
ShouldStopNoActiveTest(row) == ~row.exists
ShouldStop(row) == ~row.exists \/ ~row.isActive

RearmIfActive(c) ==
  LET s == chain[c].site IN
  IF website[s].exists /\ website[s].isActive
  THEN /\ chain' = [chain EXCEPT ![c] =
                        ArmedFor("next", s, chain[c].interval * 1000)]
       /\ timers' = [timers EXCEPT ![<<"next", s>>] = c]
  ELSE /\ chain' = [chain EXCEPT ![c] = Idle]
       /\ UNCHANGED timers

\* Lines 57-61, reached when `await performCheck` returns: a new timer is
\* armed and stored under the key `<id>`, over whatever the map held there.
\* The row is not read again here: the delay is the checkInterval of the
\* row read at line 48, times 1000.
Rearm(c) ==
  /\ chain' = [chain EXCEPT ![c] =
                   ArmedFor("next", chain[c].site, chain[c].interval * 1000)]
  /\ timers' = [timers EXCEPT ![<<"next", chain[c].site>>] = c]

\* Lines 48-54: the row read back.  Missing or inactive: the entry `<id>` is
\* deleted from the map (the timer it refers to is not cleared) and the
\* chain ends.  Else performCheck is called and issues its own findUnique.
SchedFind(c) ==
  /\ chain[c].pc = "sc_find"
  /\ LET s == chain[c].site IN
     IF ShouldStop(website[s])
     THEN /\ timers' = [timers EXCEPT ![<<"next", s>>] = NoTimer]
          /\ chain' = [chain EXCEPT ![c] = Idle]
     ELSE /\ chain' = [chain EXCEPT ![c].pc = "pc_find",
                                    ![c].interval = website[s].checkInterval]
          /\ UNCHANGED timers
  /\ UNCHANGED <<website, checks, incidents, cleanupTimer, leaked, calls,
                 stopped, notified, failures, now,
                 invocation, wa>>

\* ------------------------------------------------------------ performCheck
\* What one fetch can end as: a response with a status code, an abort by
\* the 15 s timer, or another error with its message (which may be empty);
\* ms is the time it took.
Responses ==
  {[kind |-> "http", code |-> 200, ms |-> 1, message |-> ""],
   [kind |-> "http", code |-> 399, ms |-> 1, message |-> ""],
   [kind |-> "http", code |-> 400, ms |-> 1, message |-> ""],
   [kind |-> "http", code |-> 500, ms |-> 2, message |-> ""],
   [kind |-> "abort", code |-> NoCode, ms |-> 15000, message |-> "aborted"],
   [kind |-> "error", code |-> NoCode, ms |-> 1, message |-> "ECONNREFUSED"],
   [kind |-> "error", code |-> NoCode, ms |-> 1, message |-> ""]}

\* The two responses that tell 'up' from 'down'.
PlainResponses == {r \in Responses : r.code \in {200, 500}}

\* Lines 68-98: the probe result.
ClassifyUpTo400(resp) ==
  IF resp.kind = "http"
  THEN [status |-> IF resp.code <= 400 THEN "up" ELSE "down",
        statusCode |-> resp.code,
        responseTime |-> resp.ms,
        errorMessage |-> IF resp.code <= 400 THEN NoText
                         ELSE "HTTP " \o ToString(resp.code)]
  ELSE [status |-> "down",
        statusCode |-> NoCode,
        responseTime |-> resp.ms,
        errorMessage |-> IF resp.kind = "abort" THEN "Timeout (15s)"
                         ELSE resp.message]
Classify(resp) ==
  IF resp.kind = "http"
  THEN [status |-> IF resp.code < 400 THEN "up" ELSE "down",
        statusCode |-> resp.code,
        responseTime |-> resp.ms,
        errorMessage |-> IF resp.code < 400 THEN NoText
                         ELSE "HTTP " \o ToString(resp.code)]
  ELSE [status |-> "down",
        statusCode |-> NoCode,
        responseTime |-> resp.ms,
        errorMessage |-> IF resp.kind = "abort" THEN "Timeout (15s)"
                         ELSE resp.message]

\* Lines 65-66 and 105: no row, performCheck returns at once (and
\* scheduleCheck rearms); else previousStatus is taken from this read and
\* the fetch is issued.
PerfFind(c) ==
  /\ chain[c].pc = "pc_find"
  /\ LET row == website[chain[c].site] IN
     IF ~row.exists
     THEN Rearm(c)
     ELSE /\ chain' = [chain EXCEPT ![c].pc = "fetch", ![c].prev = row.lastStatus,
                                    ![c].base = Len(incidents[chain[c].site])]
          /\ UNCHANGED timers
  /\ UNCHANGED <<website, checks, incidents, cleanupTimer, leaked, calls,
                 stopped, notified, failures, now,
                 invocation, wa>>

\* Lines 75-101: the fetch settles; the result is classified and the insert
\* of the Check row is issued.
Probe(c, resp) ==
  /\ chain[c].pc = "fetch"
  /\ LET res == Classify(resp) IN
     chain' = [chain EXCEPT ![c].pc = "check_create",
                            ![c].status = res.status,
                            ![c].code = res.statusCode,
                            ![c].ms = res.responseTime,
                            ![c].err = res.errorMessage]
  /\ UNCHANGED <<website, checks, incidents, timers, cleanupTimer, leaked, calls,
                 stopped, notified, failures, now,
                 invocation, wa>>

\* Lines 101-115: the Check row is inserted; the update of the Website row
\* is issued, with `new Date()` taken now.
CheckCreate(c) ==
  /\ chain[c].pc = "check_create"
  /\ checks' = [checks EXCEPT ![chain[c].site] =
                   Append(@, CheckRow(chain[c].status, chain[c].code,
                                      chain[c].ms, chain[c].err, now))]
  /\ chain' = [chain EXCEPT ![c].pc = "site_update", ![c].at = now]
  /\ UNCHANGED <<website, incidents, timers, cleanupTimer, leaked, calls,
                 stopped, notified, failures, now,
                 invocation, wa>>

\* Line 118.
IsDownTransitionAnyPrev(prev, status) == prev # "down" /\ status = "down"
IsDownTransition(prev, status) == prev = "up" /\ status = "down"

\* Line 126.
IsUpTransitionAnyPrev(prev, status) == prev # "up" /\ status = "up"
IsUpTransition(prev, status) == prev = "down" /\ status = "up"

\* Lines 108-129: the Website row takes the new status.  Then up -> down
\* issues the insert of an Incident, down -> up the findFirst of the open
\* one, and any other pair returns.  An update of a row that no longer
\* exists rejects, which ends the tick like any other rejection.
SiteUpdateOnChange(c) ==
  /\ chain[c].pc = "site_update"
  /\ LET s == chain[c].site IN
     IF ~website[s].exists
     THEN /\ chain' = [chain EXCEPT ![c] = Idle]
          /\ UNCHANGED <<website, timers>>
     ELSE /\ website' = IF website[s].lastStatus = chain[c].status THEN website
                        ELSE [website EXCEPT ![s].lastStatus = chain[c].status,
                                             ![s].lastCheckedAt = chain[c].at,
                                             ![s].lastResponseMs = chain[c].ms]
          /\ IF IsDownTransition(chain[c].prev, chain[c].status)
             THEN /\ chain' = [chain EXCEPT ![c].pc = "inc_create"]
                  /\ UNCHANGED timers
             ELSE IF IsUpTransition(chain[c].prev, chain[c].status)
                  THEN /\ chain' = [chain EXCEPT ![c].pc = "inc_find"]
                       /\ UNCHANGED timers
                  ELSE Rearm(c)
  /\ UNCHANGED <<checks, incidents, cleanupTimer, leaked, calls, stopped,
                 notified, failures, now,
                 invocation, wa>>
SiteUpdate(c) ==
  /\ chain[c].pc = "site_update"
  /\ LET s == chain[c].site IN
     IF ~website[s].exists
     THEN /\ chain' = [chain EXCEPT ![c] = Idle]
          /\ UNCHANGED <<website, timers>>
     ELSE /\ website' = [website EXCEPT ![s].lastStatus = chain[c].status,
                                          ![s].lastCheckedAt = chain[c].at,
                                          ![s].lastResponseMs = chain[c].ms]
          /\ IF IsDownTransition(chain[c].prev, chain[c].status)
             THEN /\ chain' = [chain EXCEPT ![c].pc = "inc_create"]
                  /\ UNCHANGED timers
             ELSE IF IsUpTransition(chain[c].prev, chain[c].status)
                  THEN /\ chain' = [chain EXCEPT ![c].pc = "inc_find"]
                       /\ UNCHANGED timers
                  ELSE Rearm(c)
  /\ UNCHANGED <<checks, incidents, cleanupTimer, leaked, calls, stopped,
                 notified, failures, now,
                 invocation, wa>>

\* notifyDown(fresh, errorMessage || "Unknown error", statusCode) is called
\* (line 125).  `sent` is how the send of the invocation ended.
DownEventNoCode(err, code) ==
  [event |-> "down",
   error |-> IF err \in {NoText, ""} THEN "Unknown error" ELSE err,
   statusCode |-> NoCode, downtime |-> NoTime, sent |-> "pending"]
DownEvent(err, code) ==
  [event |-> "down",
   error |-> IF err \in {NoText, ""} THEN "Unknown error" ELSE err,
   statusCode |-> code, downtime |-> NoTime, sent |-> "pending"]

\* notifyUp(fresh, duration) is called (line 144).
UpEventNoDuration(d) ==
  [event |-> "up", error |-> NoText, statusCode |-> NoCode,
   downtime |-> 0, sent |-> "pending"]
UpEvent(d) ==
  [event |-> "up", error |-> NoText, statusCode |-> NoCode,
   downtime |-> d, sent |-> "pending"]

\* Lines 121-124: the Incident is inserted; the row is read again.
IncCreate(c) ==
  /\ chain[c].pc = "inc_create"
  /\ incidents' = [incidents EXCEPT ![chain[c].site] =
                                     Append(@, NewIncident(now))]
  /\ chain' = [chain EXCEPT ![c].pc = "fresh_down",
                            ![c].inc = Len(incidents[chain[c].site]) + 1]
  /\ UNCHANGED <<website, checks, timers, cleanupTimer, leaked, calls,
                 stopped, notified, failures, now,
                 invocation, wa>>

\* Line 125: with a row, the Notifier is invoked with a down event; with
\* none, performCheck returns.
FreshDown(c) ==
  /\ chain[c].pc = "fresh_down"
  /\ LET s == chain[c].site IN
     IF website[s].exists
     THEN /\ notified' = [notified EXCEPT ![s] =
                           Append(@, DownEvent(chain[c].err, chain[c].code))]
          /\ chain' = [chain EXCEPT ![c].pc = "notify_down",
                                    ![c].ev = Len(notified[s]) + 1]
          /\ UNCHANGED timers
     ELSE /\ Rearm(c)
          /\ UNCHANGED notified
  /\ UNCHANGED <<website, checks, incidents, cleanupTimer, leaked, calls,
                 stopped, failures, now,
                 invocation, wa>>

\* The open Incidents of a site (where: { websiteId, resolvedAt: null }).
OpenIncidents(s) ==
  {i \in 1..Len(incidents[s]) : incidents[s][i].resolvedAt = NoTime}

\* findFirst with orderBy startedAt desc (lines 129-132): the open Incident
\* that started last; 0 when there is none.
FindOpen(s) ==
  IF OpenIncidents(s) = {} THEN 0
  ELSE CHOOSE i \in OpenIncidents(s) : \A j \in OpenIncidents(s) : j <= i

\* Lines 134-136: whole seconds from startedAt to the clock.
DurationSinceEpoch(startedAt, t) == t
Duration(startedAt, t) == t - startedAt

\* Lines 129-140: no open Incident, performCheck returns; else duration and
\* resolvedAt are taken from the clock and the update is issued.
IncFind(c) ==
  /\ chain[c].pc = "inc_find"
  /\ LET i == FindOpen(chain[c].site) IN
     IF i = 0
     THEN Rearm(c)
     ELSE /\ chain' = [chain EXCEPT ![c].pc = "inc_update", ![c].inc = i,
                          ![c].dur = Duration(incidents[chain[c].site][i].startedAt, now),
                          ![c].at = now]
          /\ UNCHANGED timers
  /\ UNCHANGED <<website, checks, incidents, cleanupTimer, leaked, calls,
                 stopped, notified, failures, now,
                 invocation, wa>>

\* Lines 137-143: the Incident found is resolved; the row is read again.
IncUpdate(c) ==
  /\ chain[c].pc = "inc_update"
  /\ incidents' = [incidents EXCEPT ![chain[c].site][chain[c].inc] =
                     [@ EXCEPT !.resolvedAt = chain[c].at,
                               !.duration = chain[c].dur,
                               !.upNotified = TRUE]]
  /\ chain' = [chain EXCEPT ![c].pc = "fresh_up"]
  /\ UNCHANGED <<website, checks, timers, cleanupTimer, leaked, calls,
                 stopped, notified, failures, now,
                 invocation, wa>>

\* Line 144: with a row, the Notifier is invoked with an up event carrying
\* the duration; with none, performCheck returns.
FreshUp(c) ==
  /\ chain[c].pc = "fresh_up"
  /\ LET s == chain[c].site IN
     IF website[s].exists
     THEN /\ notified' = [notified EXCEPT ![s] = Append(@, UpEvent(chain[c].dur))]
          /\ chain' = [chain EXCEPT ![c].pc = "notify_up",
                                    ![c].ev = Len(notified[s]) + 1]
          /\ UNCHANGED timers
     ELSE /\ Rearm(c)
          /\ UNCHANGED notified
  /\ UNCHANGED <<website, checks, incidents, cleanupTimer, leaked, calls,
                 stopped, failures, now,
                 invocation, wa>>

\* How sendNotification's send can end (notify.ts:83-92): the collaborator
\* took the message, it threw, or the site has no notifyTarget and nothing
\* was sent.
SendOutcomes == {"sent", "failed", "none"}

\* notifyDown / notifyUp return (notify.ts:35-93): the template is resolved
\* and rendered, the send has ended as `out`, a failure of it caught and
\* logged at lines 90-92; performCheck returns.
NotifyDonePropagating(c, out) ==
  /\ chain[c].pc \in {"notify_down", "notify_up"}
  /\ notified' = [notified EXCEPT ![chain[c].site][chain[c].ev].sent = out]
  /\ IF out = "failed"
     THEN chain' = [chain EXCEPT ![c] = Idle] /\ UNCHANGED timers
     ELSE Rearm(c)
  /\ UNCHANGED <<website, checks, incidents, cleanupTimer, leaked, calls,
                 stopped, failures, now,
                 invocation, wa>>
NotifyDone(c, out) ==
  /\ chain[c].pc \in {"notify_down", "notify_up"}
  /\ notified' = [notified EXCEPT ![chain[c].site][chain[c].ev].sent = out]
  /\ Rearm(c)
  /\ UNCHANGED <<website, checks, incidents, cleanupTimer, leaked, calls,
                 stopped, failures, now,
                 invocation, wa>>

\* The awaits of a tick on the Check, Website and Incident tables, and
\* (at notify_down / notify_up) on the Setting table: resolveTemplate's
\* getSetting (notify.ts:30), which is outside the Notifier's try/catch.
DbPcs == {"sc_find", "pc_find", "check_create", "site_update", "inc_create",
          "fresh_down", "notify_down", "inc_find", "inc_update", "fresh_up",
          "notify_up"}

\* The awaited database call rejects.  Neither performCheck nor
\* scheduleCheck has a try/catch around it, and the timer callback
\* `() => scheduleCheck(id)` drops the promise: the rest of the tick,
\* lines 57-61 included, does not run.
Throw(c) ==
  /\ chain[c].pc \in DbPcs
  /\ failures < MaxFailures
  /\ failures' = failures + 1
  /\ chain' = [chain EXCEPT ![c] = Idle]
  /\ UNCHANGED <<website, checks, incidents, timers, cleanupTimer, leaked, calls,
                 stopped, notified, now,
                 invocation, wa>>

\* ------------------------------------------------- the admin interface
\* The handlers that write the Website table and restart the monitor.  The
\* write is awaited and `await startMonitor()` is the next statement, so the
\* continuation of the write runs startMonitor up to its findMany.
\*
\* PUT /api/websites/:id and the chat commands /on, /off: isActive is
\* written (PUT writes it also when it does not change).
SetActiveNoRestart(s, b) ==
  /\ website[s].exists
  /\ website' = [website EXCEPT ![s].isActive = b]
  /\ UNCHANGED <<checks, incidents, timers, cleanupTimer, leaked, chain, calls,
                 stopped, notified, failures, now,
                 invocation, wa>>
SetActive(s, b) ==
  /\ website[s].exists
  /\ website' = [website EXCEPT ![s].isActive = b]
  /\ StartMonitorCall
  /\ UNCHANGED <<checks, incidents, leaked, notified, failures, now,
                 invocation, wa>>

\* PUT /api/websites/:id with a new checkInterval: the row is updated and
\* startMonitor() is called.
Intervals == {30, 60}

SetInterval(s, v) ==
  /\ website[s].exists
  /\ website[s].checkInterval # v
  /\ website' = [website EXCEPT ![s].checkInterval = v]
  /\ StartMonitorCall
  /\ UNCHANGED <<checks, incidents, leaked, notified, failures, now,
                 invocation, wa>>

\* DELETE /api/websites/:id.
DeleteSite(s) ==
  /\ website[s].exists
  /\ website' = [website EXCEPT ![s] = NoRow]
  /\ StartMonitorCall
  /\ UNCHANGED <<checks, incidents, leaked, notified, failures, now,
                 invocation, wa>>

\* POST /api/websites: a row is inserted, active and never checked.  An id
\* is a fresh cuid: the model reuses the id of a deleted site only when no
\* row and no chain still refers to it, so that it is as good as new.
CreateSite(s) ==
  /\ ~website[s].exists
  /\ checks[s] = <<>> /\ incidents[s] = <<>> /\ notified[s] = <<>>
  /\ \A c \in Chains : chain[c].site # s
  /\ website' = [website EXCEPT ![s] = WebsiteRow(TRUE, "unknown")]
  /\ StartMonitorCall
  /\ UNCHANGED <<checks, incidents, leaked, notified, failures, now,
                 invocation, wa>>

\* The chat command /check <domain>: the site is looked up, probed once and
\* the classified result is sent back as the reply; nothing is stored.
ForceCheckPersisting(s, resp) ==
  /\ website[s].exists
  /\ Len(checks[s]) < MaxChecks
  /\ LET res == Classify(resp) IN
     /\ checks' = [checks EXCEPT ![s] =
                     Append(@, CheckRow(res.status, res.statusCode,
                                        res.responseTime, res.errorMessage, now))]
     /\ website' = [website EXCEPT ![s].lastStatus = res.status,
                                   ![s].lastCheckedAt = now,
                                   ![s].lastResponseMs = res.responseTime]
  /\ UNCHANGED <<incidents, timers, cleanupTimer, leaked, chain, calls,
                 stopped, notified, failures, now,
                 invocation, wa>>
ForceCheck(s, resp) ==
  /\ website[s].exists
  /\ Classify(resp).status \in {"up", "down"}
  /\ UNCHANGED vars

\* cleanupOldChecks() (lines 149-157), run by a retention interval: the
\* Check rows whose checkedAt is before the cutoff are deleted.
Cutoff == now - RetentionSeconds

CleanupOldChecksInclusive ==
  /\ cleanupTimer \/ leaked > 0
  /\ checks' = [s \in Sites |->
                  SelectSeq(checks[s], LAMBDA r : ~(r.checkedAt <= Cutoff))]
  /\ UNCHANGED <<website, incidents, timers, cleanupTimer, leaked, chain,
                 calls, stopped, notified, failures, now,
                 invocation, wa>>
CleanupOldChecks ==
  /\ cleanupTimer \/ leaked > 0
  /\ checks' = [s \in Sites |->
                  SelectSeq(checks[s], LAMBDA r : ~(r.checkedAt < Cutoff))]
  /\ UNCHANGED <<website, incidents, timers, cleanupTimer, leaked, chain,
                 calls, stopped, notified, failures, now,
                 invocation, wa>>

\* One second passes.
Tick ==
  /\ now < MaxNow
  /\ now' = now + 1
  /\ UNCHANGED <<website, checks, incidents, timers, cleanupTimer, leaked, chain,
                 calls, stopped, notified, failures,
                 invocation, wa>>

Next ==
  \/ StartMonitorLoad
  \/ StopMonitor
  \/ \E c \in Chains : Fire(c)
  \/ \E c \in Chains : SchedFind(c)
  \/ \E c \in Chains : PerfFind(c)
  \/ \E c \in Chains : \E resp \in PlainResponses : Probe(c, resp)
  \/ \E c \in Chains : CheckCreate(c)
  \/ \E c \in Chains : SiteUpdate(c)
  \/ \E c \in Chains : IncCreate(c)
  \/ \E c \in Chains : FreshDown(c)
  \/ \E c \in Chains : IncFind(c)
  \/ \E c \in Chains : IncUpdate(c)
  \/ \E c \in Chains : FreshUp(c)
  \/ \E c \in Chains : NotifyDone(c, "sent")
  \/ \E c \in Chains : Throw(c)
  \/ \E s \in Sites, b \in BOOLEAN : SetActive(s, b)
  \/ \E s \in Sites : DeleteSite(s)
  \/ \E s \in Seeded : CreateSite(s)
  \/ \E s \in Seeded : \E resp \in PlainResponses : ForceCheck(s, resp)
  \/ Tick

Spec == Init /\ [][Next]_vars

\* The monitor with every kind of probe result and every way a send can
\* end, while the admin interface does nothing but delete sites.
NextProbe ==
  \/ StartMonitorLoad
  \/ \E c \in Chains : Fire(c)
  \/ \E c \in Chains : SchedFind(c)
  \/ \E c \in Chains : PerfFind(c)
  \/ \E c \in Chains : \E resp \in Responses : Probe(c, resp)
  \/ \E c \in Chains : CheckCreate(c)
  \/ \E c \in Chains : SiteUpdate(c)
  \/ \E c \in Chains : IncCreate(c)
  \/ \E c \in Chains : FreshDown(c)
  \/ \E c \in Chains : IncFind(c)
  \/ \E c \in Chains : IncUpdate(c)
  \/ \E c \in Chains : FreshUp(c)
  \/ \E c \in Chains : \E out \in SendOutcomes : NotifyDone(c, out)
  \/ \E c \in Chains : Throw(c)
  \/ \E s \in Sites : DeleteSite(s)
  \/ Tick

SpecProbe == Init /\ [][NextProbe]_vars

\* One healthy site whose checkInterval is edited from the dashboard while
\* it is monitored.
UpResponses == {r \in Responses : r.code = 200}

NextEdit ==
  \/ StartMonitorLoad
  \/ \E c \in Chains : Fire(c)
  \/ \E c \in Chains : SchedFind(c)
  \/ \E c \in Chains : PerfFind(c)
  \/ \E c \in Chains : \E resp \in UpResponses : Probe(c, resp)
  \/ \E c \in Chains : CheckCreate(c)
  \/ \E c \in Chains : SiteUpdate(c)
  \/ \E s \in Seeded, v \in Intervals : SetInterval(s, v)

SpecEdit == Init /\ [][NextEdit]_vars

\* Two healthy sites, with checkInterval 30 and 60, monitored from the
\* start of the process on.
InitFleet ==
  /\ website = [s \in Sites |->
                  [WebsiteRow(TRUE, "unknown") EXCEPT
                     !.checkInterval = IF s = 1 THEN 30 ELSE 60]]
  /\ checks = [s \in Sites |-> <<>>]
  /\ incidents = [s \in Sites |-> <<>>]
  /\ timers = [k \in Keys |-> NoTimer]
  /\ cleanupTimer = FALSE
  /\ leaked = 0
  /\ chain = [c \in Chains |-> Idle]
  /\ calls = 1
  /\ stopped = FALSE
  /\ notified = [s \in Sites |-> <<>>]
  /\ failures = 0
  /\ now = 0
  /\ invocation = NoInvocation
  /\ wa = Unused

NextFleet ==
  \/ StartMonitorLoad
  \/ \E c \in Chains : Fire(c)
  \/ \E c \in Chains : SchedFind(c)
  \/ \E c \in Chains : PerfFind(c)
  \/ \E c \in Chains : \E resp \in UpResponses : Probe(c, resp)
  \/ \E c \in Chains : CheckCreate(c)
  \/ \E c \in Chains : SiteUpdate(c)
  \/ Tick

SpecFleet == InitFleet /\ [][NextFleet]_vars

\* The retention job on its own: the monitor has been running for more
\* than 90 days, a retention interval is set, and the Check table holds
\* MaxOldRows rows, in insertion order, written around the cutoff and just
\* now.
RECURSIVE Tables(_, _)
Tables(T, n) ==
  IF n = 0 THEN {<<>>}
  ELSE LET shorter == Tables(T, n - 1) IN
       shorter \cup
       {Append(q, CheckRow("up", 200, 1, NoText, t)) :
          q \in {x \in shorter : Len(x) = n - 1}, t \in T}

InOrder(q) == \A i \in 1..(Len(q) - 1) : q[i].checkedAt <= q[i + 1].checkedAt

InitRetention ==
  /\ now \in (RetentionSeconds + 1)..(RetentionSeconds + MaxAge)
  /\ invocation = NoInvocation
  /\ wa = Unused
  /\ checks \in {t \in [Sites -> {q \in Tables(0..(MaxAge + 1) \cup {now},
                                                  MaxOldRows) : InOrder(q)}] :
                   \A s \in Sites : Len(t[s]) = IF s \in Seeded THEN MaxOldRows
                                                 ELSE 0}
  /\ website = [s \in Sites |->
                  IF s \in Seeded
                  THEN [WebsiteRow(TRUE, "up") EXCEPT !.lastCheckedAt = now,
                                                     !.lastResponseMs = 1]
                  ELSE NoRow]
  /\ incidents = [s \in Sites |->
                    IF s \in Seeded
                    THEN << [NewIncident(0) EXCEPT !.resolvedAt = 1,
                                                   !.duration = 1,
                                                   !.upNotified = TRUE] >>
                    ELSE <<>>]
  /\ timers = [k \in Keys |-> IF k = <<"next", 1>> THEN 1 ELSE NoTimer]
  /\ cleanupTimer = TRUE
  /\ leaked = 0
  /\ chain = [c \in Chains |->
                IF c = 1 THEN ArmedFor("next", 1, DefaultInterval * 1000)
                ELSE Idle]
  /\ calls = 0
  /\ stopped = FALSE
  /\ notified = [s \in Sites |-> <<>>]
  /\ failures = 0

NextRetention == CleanupOldChecks

SpecRetention == InitRetention /\ [][NextRetention]_vars

\* The monitor left alone: the sites stay as they are and startMonitor is
\* not called again.  Node runs every timer that is due and every
\* continuation whose awaited call has settled, and a fetch settles within
\* its 15 s timeout, so each step of a chain is taken if it stays possible;
\* whether a database call rejects is up to the database.
ChainStep(c) ==
  \/ Fire(c)
  \/ SchedFind(c)
  \/ PerfFind(c)
  \/ \E resp \in PlainResponses : Probe(c, resp)
  \/ CheckCreate(c)
  \/ SiteUpdate(c)
  \/ IncCreate(c)
  \/ FreshDown(c)
  \/ IncFind(c)
  \/ IncUpdate(c)
  \/ FreshUp(c)
  \/ NotifyDone(c, "sent")

NextLive ==
  \/ StartMonitorLoad
  \/ \E c \in Chains : ChainStep(c)
  \/ \E c \in Chains : Throw(c)
  \/ Tick

Fairness ==
  /\ WF_vars(StartMonitorLoad)
  /\ \A c \in Chains : WF_vars(ChainStep(c))

SpecLive == Init /\ [][NextLive]_vars /\ Fairness

\* ------------------------------------------------- the WhatsApp connection
\* whatsapp.ts.  MaxSockets bounds the sockets made in one behaviour.
MaxSockets == 3

monitor == <<website, checks, incidents, timers, cleanupTimer, leaked, chain,
             calls, stopped, notified, failures, now, invocation>>

\* connectWA (lines 34-44): after its two awaits the socket is made, kept
\* in `sock`, and its handlers are registered.
MakeSocket ==
  /\ wa.connects > 0
  /\ wa.made < MaxSockets
  /\ wa' = [wa EXCEPT !.connects = @ - 1,
                      !.made = @ + 1,
                      !.sock = wa.made + 1,
                      !.live = @ \cup {wa.made + 1}]
  /\ UNCHANGED monitor

\* One of connectWA's awaits rejects (no network): no socket is made.
ConnectFails ==
  /\ wa.connects > 0
  /\ wa' = [wa EXCEPT !.connects = @ - 1]
  /\ UNCHANGED monitor

\* The timer of line 85 fires and calls connectWA().
RetryFires ==
  /\ wa.retries > 0
  /\ wa' = [wa EXCEPT !.retries = @ - 1, !.connects = @ + 1]
  /\ UNCHANGED monitor

\* The connection.update events a socket emits: a QR code (whose rendering
\* succeeds or throws), connecting, close (logged out or not), open (with
\* or without a user id).
Update(qr, connection, loggedOut, number) ==
  [qr |-> qr, connection |-> connection, loggedOut |-> loggedOut,
   number |-> number]

Updates ==
  {Update("rendered", "none", FALSE, "null"),
   Update("throws", "none", FALSE, "null"),
   Update("none", "connecting", FALSE, "null"),
   Update("none", "close", TRUE, "null"),
   Update("none", "close", FALSE, "null"),
   Update("none", "open", FALSE, "6281234567"),
   Update("none", "open", FALSE, "null")}

\* The handler of lines 48-99, branch by branch.
AfterQr(conn, u) ==
  IF u.qr = "rendered"
  THEN [conn EXCEPT !.currentQR = TRUE, !.state = "qr_ready"]
  ELSE conn

AfterConnecting(conn, u) ==
  IF u.connection = "connecting"
  THEN [conn EXCEPT !.state = "connecting", !.currentQR = FALSE]
  ELSE conn

AfterClose(conn, u) ==
  IF u.connection # "close" THEN conn
  ELSE IF u.loggedOut
  THEN [conn EXCEPT !.currentQR = FALSE, !.state = "disconnected",
                    !.connectedNumber = "null"]
  ELSE IF conn.shouldReconnect
  THEN [conn EXCEPT !.currentQR = FALSE, !.state = "disconnected",
                    !.retries = @ + 1]
  ELSE [conn EXCEPT !.currentQR = FALSE, !.state = "disconnected",
                    !.connectedNumber = "null"]

AfterOpen(conn, u) ==
  IF u.connection = "open"
  THEN [conn EXCEPT !.state = "connected", !.currentQR = FALSE,
                    !.connectedNumber = IF conn.sock # 0 THEN u.number
                                        ELSE "null"]
  ELSE conn

\* Socket k emits an update; a socket that has closed emits no more.
ConnectionUpdate(k, u) ==
  /\ k \in wa.live
  /\ LET handled == AfterOpen(AfterClose(AfterConnecting(AfterQr(wa, u), u), u), u)
     IN wa' = [handled EXCEPT !.live = IF u.connection = "close"
                                       THEN @ \ {k} ELSE @]
  /\ UNCHANGED monitor

\* disconnect() (lines 196-209) up to its await of sock.logout(), or to its
\* end when there is no socket.
DisconnectCall ==
  /\ ~wa.logout
  /\ wa' = IF wa.sock # 0
           THEN [wa EXCEPT !.shouldReconnect = FALSE, !.logout = TRUE]
           ELSE [wa EXCEPT !.shouldReconnect = FALSE,
                           !.state = "disconnected",
                           !.connectedNumber = "null",
                           !.currentQR = FALSE]
  /\ UNCHANGED monitor

\* disconnect() after the await (lines 200-208).
DisconnectDone ==
  /\ wa.logout
  /\ wa' = [wa EXCEPT !.logout = FALSE, !.sock = 0,
                      !.state = "disconnected",
                      !.connectedNumber = "null",
                      !.currentQR = FALSE]
  /\ UNCHANGED monitor

\* reconnect() (lines 211-225) up to the first await of connectWA().
Reconnect ==
  /\ wa.made + wa.connects + wa.retries < MaxSockets
  /\ wa' = [wa EXCEPT !.shouldReconnect = TRUE, !.sock = 0,
                      !.state = "disconnected",
                      !.connectedNumber = "null",
                      !.currentQR = FALSE,
                      !.connects = @ + 1]
  /\ UNCHANGED monitor

\* main() has called initWhatsApp() (lines 28-32), which is at the first
\* await of connectWA(); the monitor has not been started.
InitWa ==
  /\ website = [s \in Sites |-> IF s \in Seeded THEN WebsiteRow(TRUE, "unknown")
                                   ELSE NoRow]
  /\ checks = [s \in Sites |-> <<>>]
  /\ incidents = [s \in Sites |-> <<>>]
  /\ timers = [k \in Keys |-> NoTimer]
  /\ cleanupTimer = FALSE
  /\ leaked = 0
  /\ chain = [c \in Chains |-> Idle]
  /\ calls = 0
  /\ stopped = FALSE
  /\ notified = [s \in Sites |-> <<>>]
  /\ failures = 0
  /\ now = 0
  /\ invocation = NoInvocation
  /\ wa = [Unused EXCEPT !.connects = 1]

NextWa ==
  \/ MakeSocket
  \/ ConnectFails
  \/ RetryFires
  \/ \E k \in 1..MaxSockets : \E u \in Updates : ConnectionUpdate(k, u)
  \/ DisconnectCall
  \/ DisconnectDone
  \/ Reconnect

SpecWa == InitWa /\ [][NextWa]_vars

\* ------------------------------------------------- the monitor and the connection
\* sendToNumber / sendToGroup (whatsapp.ts:157-178): with no socket or a
\* state other than 'connected' the call logs and returns and nothing is
\* sent; otherwise sock.sendMessage is awaited, which takes the message or
\* rejects.
SendToWhenSocket(conn) ==
  IF conn.sock = 0
  THEN {"none"}
  ELSE {"sent", "failed"}
SendTo(conn) ==
  IF conn.sock = 0 \/ conn.state # "connected"
  THEN {"none"}
  ELSE {"sent", "failed"}

\* notifyDown / notifyUp of a site with a notifyTarget: the send ends as
\* the connection of the moment lets it.
Notify(c) ==
  \E out \in SendTo(wa) : NotifyDone(c, out)

\* main() (part_003:11-25): initWhatsApp() has been awaited, so its
\* connectWA() has made the socket or has rejected, and startMonitor() is
\* called.
InitDelivery ==
  /\ website = [s \in Sites |-> IF s \in Seeded THEN WebsiteRow(TRUE, "unknown")
                                   ELSE NoRow]
  /\ checks = [s \in Sites |-> <<>>]
  /\ incidents = [s \in Sites |-> <<>>]
  /\ timers = [k \in Keys |-> NoTimer]
  /\ cleanupTimer = FALSE
  /\ leaked = 0
  /\ chain = [c \in Chains |-> Idle]
  /\ calls = 1
  /\ stopped = FALSE
  /\ notified = [s \in Sites |-> <<>>]
  /\ failures = 0
  /\ now = 0
  /\ invocation = NoInvocation
  /\ wa \in {Unused,
              [Unused EXCEPT !.sock = 1, !.live = {1}, !.made = 1]}

NextDelivery ==
  \/ StartMonitorLoad
  \/ \E c \in Chains : Fire(c)
  \/ \E c \in Chains : SchedFind(c)
  \/ \E c \in Chains : PerfFind(c)
  \/ \E c \in Chains : \E resp \in PlainResponses : Probe(c, resp)
  \/ \E c \in Chains : CheckCreate(c)
  \/ \E c \in Chains : SiteUpdate(c)
  \/ \E c \in Chains : IncCreate(c)
  \/ \E c \in Chains : FreshDown(c)
  \/ \E c \in Chains : IncFind(c)
  \/ \E c \in Chains : IncUpdate(c)
  \/ \E c \in Chains : FreshUp(c)
  \/ \E c \in Chains : Notify(c)
  \/ MakeSocket
  \/ ConnectFails
  \/ RetryFires
  \/ \E k \in 1..MaxSockets : \E u \in Updates : ConnectionUpdate(k, u)
  \/ DisconnectCall
  \/ DisconnectDone
  \/ Reconnect

SpecDelivery == InitDelivery /\ [][NextDelivery]_vars

\* ------------------------------------------------- functions taken alone
\* A function of the Notifier or of the Scheduler is called once with
\* arguments of a bounded set, and returns.  The tables and the timers take
\* no part in it.
Call(fn, args) == [fn |-> fn, args |-> args, returned |-> FALSE, result |-> <<>>]

Return(fn, value) ==
  /\ invocation.fn = fn
  /\ ~invocation.returned
  /\ invocation' = [invocation EXCEPT !.returned = TRUE, !.result = value]
  /\ UNCHANGED <<website, checks, incidents, timers, cleanupTimer, leaked,
                 chain, calls, stopped, notified, failures, now, wa>>

\* utils.ts, formatDuration (lines 1-11).
MaxSeconds == 3720
Durations == 0..MaxSeconds \cup {7199, 7200, 7260, 86399, 86400, 90061}

FormatDurationKeepingZero(seconds) ==
  IF seconds < 60 THEN ToString(seconds) \o "s"
  ELSE IF seconds < 3600
  THEN ToString(seconds \div 60) \o "m " \o ToString(seconds % 60) \o "s"
  ELSE ToString(seconds \div 3600) \o "h "
         \o ToString((seconds % 3600) \div 60) \o "m"
FormatDuration(seconds) ==
  IF seconds < 60 THEN ToString(seconds) \o "s"
  ELSE IF seconds < 3600
  THEN LET m == seconds \div 60
           s == seconds % 60
       IN IF s > 0 THEN ToString(m) \o "m " \o ToString(s) \o "s"
          ELSE ToString(m) \o "m"
  ELSE LET h == seconds \div 3600
           m == (seconds % 3600) \div 60
       IN IF m > 0 THEN ToString(h) \o "h " \o ToString(m) \o "m"
          ELSE ToString(h) \o "h"

FormatDurationReturns ==
  Return("formatDuration", FormatDuration(invocation.args[1]))

\* notify.ts.  A text is the sequence of its characters, and null is a
\* value that no text equals.  The two built-in templates (lines 7-10); the
\* coloured circles are written by their code points.
Null == <<"null">>

DEFAULT_DOWN_TEMPLATE ==
  <<"U+1F534", " ", "*", "{", "n", "a", "m", "e", "}", "*", " ", "i",
    "s", " ", "D", "O", "W", "N", "\n", "U", "R", "L", ":", " ", "{",
    "u", "r", "l", "}", "\n", "E", "r", "r", "o", "r", ":", " ", "{",
    "e", "r", "r", "o", "r", "}", "\n", "T", "i", "m", "e", ":", " ",
    "{", "t", "i", "m", "e", "}">>

DEFAULT_UP_TEMPLATE ==
  <<"U+1F7E2", " ", "*", "{", "n", "a", "m", "e", "}", "*", " ", "i",
    "s", " ", "b", "a", "c", "k", " ", "U", "P", "\n", "U", "R", "L",
    ":", " ", "{", "u", "r", "l", "}", "\n", "D", "o", "w", "n", "t",
    "i", "m", "e", ":", " ", "{", "d", "o", "w", "n", "t", "i", "m",
    "e", "}", "\n", "T", "i", "m", "e", ":", " ", "{", "t", "i", "m",
    "e", "}">>

\* The truth value JavaScript gives a `string | null`.
Truthy(text) == text # Null /\ text # <<>>

\* getSetting (lines 12-15): the value of the row under the key, or null
\* when there is no row.  The Setting table is key -> value, with Null for
\* a key without a row.
SettingKeys == {"defaultDownTemplate", "defaultUpTemplate"}

GetSetting(settings, key) == settings[key]

\* resolveTemplate (lines 24-33).
ResolveTemplateSettingFirst(websiteTemplate, settingKey, hardcodedDefault, settings) ==
  LET settingDefault == GetSetting(settings, settingKey) IN
  IF Truthy(settingDefault) THEN settingDefault
  ELSE IF Truthy(websiteTemplate) THEN websiteTemplate
  ELSE hardcodedDefault
ResolveTemplate(websiteTemplate, settingKey, hardcodedDefault, settings) ==
  IF Truthy(websiteTemplate) THEN websiteTemplate
  ELSE LET settingDefault == GetSetting(settings, settingKey) IN
       IF Truthy(settingDefault) THEN settingDefault
       ELSE hardcodedDefault

ResolveTemplateReturns ==
  Return("resolveTemplate",
         ResolveTemplate(invocation.args[1], invocation.args[2],
                         invocation.args[3], invocation.args[4]))

\* The calls of resolveTemplate: notifyDown's (lines 41-45) and notifyUp's
\* (lines 63-67), for a site whose template is null, empty or set, and a
\* Setting table whose rows are missing, empty or set.
SiteTemplates ==
  {Null, <<>>,
   <<"{", "n", "a", "m", "e", "}", " ", "d", "o", "w", "n">>,
   <<"{", "n", "a", "m", "e", "}", " ", "u", "p">>}

SettingValues ==
  {Null, <<>>,
   <<"{", "u", "r", "l", "}", "!">>,
   <<"{", "n", "a", "m", "e", "}", " ", "u", "p">>}

ResolveCalls ==
  {Call("resolveTemplate", <<t, "defaultDownTemplate", DEFAULT_DOWN_TEMPLATE, set>>) :
     t \in SiteTemplates, set \in [SettingKeys -> SettingValues]}
  \cup
  {Call("resolveTemplate", <<t, "defaultUpTemplate", DEFAULT_UP_TEMPLATE, set>>) :
     t \in SiteTemplates, set \in [SettingKeys -> SettingValues]}

\* sendNotification (lines 79-93): at most one call of the send
\* collaborator, which returns or throws; what it throws is caught and
\* logged.  The result is the calls made and whether sendNotification
\* itself threw.
SendCall(via, to, text) == [via |-> via, to |-> to, text |-> text]

SendNotificationByTypeOnly(site, message, outcome) ==
  IF site.notifyType = "group"
  THEN [sends |-> <<SendCall("sendToGroup", site.notifyTarget, message)>>,
        raised |-> FALSE]
  ELSE IF site.notifyTarget # ""
  THEN [sends |-> <<SendCall("sendToNumber", site.notifyTarget, message)>>,
        raised |-> FALSE]
  ELSE [sends |-> <<>>, raised |-> FALSE]
SendNotification(site, message, outcome) ==
  IF site.notifyType = "group" /\ site.notifyTarget # ""
  THEN [sends |-> <<SendCall("sendToGroup", site.notifyTarget, message)>>,
        raised |-> FALSE]
  ELSE IF site.notifyTarget # ""
  THEN [sends |-> <<SendCall("sendToNumber", site.notifyTarget, message)>>,
        raised |-> FALSE]
  ELSE [sends |-> <<>>, raised |-> FALSE]

SendNotificationReturns ==
  Return("sendNotification",
         SendNotification(invocation.args[1], invocation.args[2],
                          invocation.args[3]))

\* The calls of sendNotification: the routing columns as the dashboard and
\* the seed script write them, a message, and a collaborator that returns
\* or throws.
NotifyTypes == {"personal", "group", "", "channel"}
NotifyTargets == {"", "6281234567", "120363041234@g.us"}
Messages == {<<>>, <<"d", "o", "w", "n">>}
SendOutcomesAlone == {"returns", "throws"}

SendCalls ==
  {Call("sendNotification",
        <<[notifyType |-> ty, notifyTarget |-> to], msg, out>>) :
     ty \in NotifyTypes, to \in NotifyTargets, msg \in Messages,
     out \in SendOutcomesAlone}

\* renderTemplate (lines 17-22): String.replace with /\{(\w+)\}/g and the
\* callback `(_, key) => vars[key] ?? ""`.  The characters \w matches:
WordChars ==
  {"a", "b", "c", "d", "e", "f", "g", "h", "i", "j", "k", "l", "m",
   "n", "o", "p", "q", "r", "s", "t", "u", "v", "w", "x", "y", "z",
   "A", "B", "C", "D", "E", "F", "G", "H", "I", "J", "K", "L", "M",
   "N", "O", "P", "Q", "R", "S", "T", "U", "V", "W", "X", "Y", "Z",
   "0", "1", "2", "3", "4", "5", "6", "7", "8", "9", "_"}

\* The last index of the longest run of word characters of `template` from
\* index i on; i - 1 when there is none.
RECURSIVE WordRun(_, _)
WordRun(template, i) ==
  IF i <= Len(template) /\ template[i] \in WordChars
  THEN WordRun(template, i + 1)
  ELSE i - 1

\* The string spelled by a sequence of characters.
RECURSIVE Join(_)
Join(chars) == IF chars = <<>> THEN "" ELSE Head(chars) \o Join(Tail(chars))

\* The map `vars` is an object literal (lines 47-53, 69-74), so `vars[key]` also
\* finds what every object inherits from Object.prototype; replace() turns
\* what the callback returns into a string.
ObjectPrototype ==
  [constructor |-> "function Object() { [native code] }",
   hasOwnProperty |-> "function hasOwnProperty() { [native code] }",
   isPrototypeOf |-> "function isPrototypeOf() { [native code] }",
   propertyIsEnumerable |-> "function propertyIsEnumerable() { [native code] }",
   toLocaleString |-> "function toLocaleString() { [native code] }",
   toString |-> "function toString() { [native code] }",
   valueOf |-> "function valueOf() { [native code] }",
   __defineGetter__ |-> "function __defineGetter__() { [native code] }",
   __defineSetter__ |-> "function __defineSetter__() { [native code] }",
   __lookupGetter__ |-> "function __lookupGetter__() { [native code] }",
   __lookupSetter__ |-> "function __lookupSetter__() { [native code] }",
   __proto__ |-> "[object Object]"]

Lookup(variables, key) ==
  IF key \in DOMAIN variables THEN variables[key]
  ELSE IF key \in DOMAIN ObjectPrototype THEN <<ObjectPrototype[key]>>
  ELSE <<>>

\* The scan of replace(): at a `{` followed by one or more word characters
\* and a `}` the match is replaced and the scan goes on after the `}`;
\* any other character is copied.
RECURSIVE RenderFrom(_, _, _)
RenderFrom(template, variables, i) ==
  IF i > Len(template) THEN <<>>
  ELSE LET j == WordRun(template, i + 1) IN
       IF /\ template[i] = "{"
          /\ j >= i + 1
          /\ j + 1 <= Len(template)
          /\ template[j + 1] = "}"
       THEN Lookup(variables, Join(SubSeq(template, i + 1, j)))
              \o RenderFrom(template, variables, j + 2)
       ELSE <<template[i]>> \o RenderFrom(template, variables, i + 1)

RenderTemplate(template, variables) == RenderFrom(template, variables, 1)

RenderTemplateReturns ==
  Return("renderTemplate",
         RenderTemplate(invocation.args[1], invocation.args[2]))

\* The variables notifyDown (lines 47-53) and notifyUp (lines 69-74) pass.
\* The error text here is itself a placeholder, and the probe got no code.
DownVars ==
  [name |-> <<"A">>, url |-> <<"h", "/", "a">>,
   error |-> <<"{", "u", "r", "l", "}">>, statusCode |-> <<>>,
   time |-> <<"9", ".", "0", "0">>]

UpVars ==
  [name |-> <<"A">>, url |-> <<"h", "/", "a">>,
   downtime |-> <<"2", "m", " ", "5", "s">>,
   time |-> <<"9", ".", "0", "0">>]

\* The templates rendered: every text of up to MaxTemplate characters out
\* of `{`, `}`, `u`, `r`, `l`, the two built-in texts, and some more.
MaxTemplate == 5

RECURSIVE TextsUpTo(_, _)
TextsUpTo(alphabet, n) ==
  IF n = 0 THEN {<<>>}
  ELSE LET shorter == TextsUpTo(alphabet, n - 1) IN
       shorter \cup {Append(t, c) : t \in {x \in shorter : Len(x) = n - 1},
                                    c \in alphabet}

Templates ==
  TextsUpTo({"{", "}", "u", "r", "l"}, MaxTemplate)
  \cup {DEFAULT_DOWN_TEMPLATE, DEFAULT_UP_TEMPLATE,
        <<"{", "c", "o", "n", "s", "t", "r", "u", "c", "t", "o", "r", "}">>,
        <<"{", "t", "o", "S", "t", "r", "i", "n", "g", "}", ":", " ", "{", "n", "a", "m", "e", "}">>,
        <<"{", "_", "_", "p", "r", "o", "t", "o", "_", "_", "}">>,
        <<"{", "v", "a", "l", "u", "e", "O", "f", "}">>,
        <<"{", "n", "a", "m", "e">>,
        <<"n", "a", "m", "e", "}">>,
        <<"{", "}">>,
        <<"{", "n", "a", " ", "m", "e", "}">>,
        <<"{", "{", "n", "a", "m", "e", "}", "}">>,
        <<"{", "n", "a", "m", "e", "}", "{", "n", "a", "m", "e", "}">>,
        <<"{", "s", "t", "a", "t", "u", "s", "C", "o", "d", "e", "}", "|", "{", "e", "r", "r", "o", "r", "}">>,
        <<"{", "d", "o", "w", "n", "t", "i", "m", "e", "}">>,
        <<"{", "N", "a", "m", "e", "}">>,
        <<"{", "t", "i", "m", "e", "}", " ", "{", "x", "1", "_", "}">>,
        <<"{", "n", "a", "m", "e", "}", "}", "{">>}

RenderCalls ==
  {Call("renderTemplate", <<t, v>>) : t \in Templates, v \in {DownVars, UpVars}}

\* startMonitor's staggering (lines 18-26) for a fleet of any size: given
\* the checkInterval of the active sites in load order, the delay in
\* milliseconds of each site's first timer.
MaxFleet == 14

InitialDelays(intervals) ==
  LET count == Len(intervals)
      minInterval == MinOf({intervals[k] : k \in 1..count})
  IN [k \in 1..count |-> InitialDelay(k - 1, minInterval, count)]

StartMonitorReturns ==
  Return("startMonitor", InitialDelays(invocation.args[1]))

\* Fleets of 1..MaxFleet active sites with one interval, or with one site
\* on a shorter interval than the rest.
IntervalPairs == {<<10, 30>>, <<30, 60>>, <<60, 300>>}

Fleets ==
  {[k \in 1..n |-> IF k = p THEN pair[1] ELSE pair[2]] :
     n \in 1..MaxFleet, p \in 0..MaxFleet, pair \in IntervalPairs}

StartCalls == {Call("startMonitor", <<f>>) : f \in Fleets}

InitFunctions ==
  /\ website = [s \in Sites |-> IF s \in Seeded THEN WebsiteRow(TRUE, "unknown")
                                   ELSE NoRow]
  /\ checks = [s \in Sites |-> <<>>]
  /\ incidents = [s \in Sites |-> <<>>]
  /\ timers = [k \in Keys |-> NoTimer]
  /\ cleanupTimer = FALSE
  /\ leaked = 0
  /\ chain = [c \in Chains |-> Idle]
  /\ calls = 1
  /\ stopped = FALSE
  /\ notified = [s \in Sites |-> <<>>]
  /\ failures = 0
  /\ now = 0
  /\ wa = Unused
  /\ invocation \in {Call("formatDuration", <<n>>) : n \in Durations}
                    \cup ResolveCalls
                    \cup SendCalls
                    \cup RenderCalls
                    \cup StartCalls

NextFunctions ==
  \/ FormatDurationReturns
  \/ ResolveTemplateReturns
  \/ SendNotificationReturns
  \/ RenderTemplateReturns
  \/ StartMonitorReturns

SpecFunctions == InitFunctions /\ [][NextFunctions]_vars

\* ------------------------------------------------- the chat commands
\* commands.ts: /on and /off.  A Website row with the columns toggleCmd
\* reads besides isActive.
ChatSite(url, scope, active) ==
  WebsiteRow(active, "unknown")
    @@ [url |-> url, notifyType |-> scope.notifyType,
        notifyTarget |-> scope.notifyTarget]

\* The scope of a sender (whatsapp.ts:118-128): a group's JID, or the phone
\* number of a personal chat.
Scope(type, target) == [notifyType |-> type, notifyTarget |-> target]

SenderScopes == {Scope("group", "120363@g.us"), Scope("personal", "62811")}

\* What the dashboard can store in a row's notifyType and notifyTarget.
SiteScopes == SenderScopes \cup {Scope("personal", "120363@g.us")}

Urls == {<<"a", ".", "i", "o">>, <<"b", ".", "i", "o">>}

Domains == {<<>>, <<"a">>, <<"A", ".", "i", "o">>, <<"i", "o">>, <<"c">>}

\* `url: { contains: domain }` on SQLite is LIKE '%domain%', which folds
\* the case of ASCII letters.
Fold(ch) == IF ch = "A" THEN "a" ELSE IF ch = "B" THEN "b" ELSE ch

Contains(text, part) ==
  \E i \in 0..(Len(text) - Len(part)) :
     \A j \in 1..Len(part) : Fold(text[i + j]) = Fold(part[j])

\* prisma.website.findMany({ where: { ...scope, url: { contains } } }).
Matches(scope, domain) ==
  {s \in Sites : /\ website[s].exists
                 /\ website[s].notifyType = scope.notifyType
                 /\ website[s].notifyTarget = scope.notifyTarget
                 /\ Contains(website[s].url, domain)}

\* toggleCmd up to its return or to its await of the update: the usage
\* text for an empty argument, the findMany, the three refusals.
ToggleFind ==
  /\ invocation.fn = "toggleCmd"
  /\ ~invocation.returned
  /\ invocation.result = <<>>
  /\ LET scope   == invocation.args[1]
         domain  == invocation.args[2]
         active  == invocation.args[3]
         matches == Matches(scope, domain)
     IN invocation' =
          IF domain = <<>>
          THEN [invocation EXCEPT !.returned = TRUE, !.result = <<"usage">>]
          ELSE IF matches = {}
          THEN [invocation EXCEPT !.returned = TRUE, !.result = <<"not found">>]
          ELSE IF Cardinality(matches) > 1
          THEN [invocation EXCEPT !.returned = TRUE, !.result = <<"multiple">>]
          ELSE LET site == CHOOSE s \in matches : TRUE
               IN IF website[site].isActive = active
                  THEN [invocation EXCEPT !.returned = TRUE,
                                          !.result = <<"already", site>>]
                  ELSE [invocation EXCEPT !.result = <<"update", site>>]
  /\ UNCHANGED <<website, checks, incidents, timers, cleanupTimer, leaked,
                 chain, calls, stopped, notified, failures, now, wa>>

\* The update by id has been awaited: isActive is written and startMonitor
\* is called; for a row deleted meanwhile the update rejects and the
\* command ends there.
ToggleUpdate ==
  /\ invocation.fn = "toggleCmd"
  /\ ~invocation.returned
  /\ Len(invocation.result) = 2
  /\ LET site   == invocation.result[2]
         active == invocation.args[3]
     IN IF website[site].exists
        THEN /\ website' = [website EXCEPT ![site].isActive = active]
             /\ StartMonitorCall
             /\ invocation' = [invocation EXCEPT !.returned = TRUE,
                                                 !.result = <<"toggled", site>>]
             /\ UNCHANGED leaked
        ELSE /\ invocation' = [invocation EXCEPT !.returned = TRUE,
                                                 !.result = <<"throws", site>>]
             /\ UNCHANGED <<website, timers, cleanupTimer, leaked, chain,
                            calls, stopped>>
  /\ UNCHANGED <<checks, incidents, notified, failures, now, wa>>

\* PUT /api/websites/:id with another notifyType or notifyTarget.
Reassign(s, scope) ==
  /\ website[s].exists
  /\ website' = [website EXCEPT ![s].notifyType = scope.notifyType,
                                ![s].notifyTarget = scope.notifyTarget]
  /\ StartMonitorCall
  /\ UNCHANGED <<checks, incidents, leaked, notified, failures, now,
                 invocation, wa>>

\* Two sites, or one, of any url, scope and state; a /on or /off arrives;
\* the scheduler is at rest.
InitChat ==
  /\ website \in [Sites -> {NoRow} \cup
                     {ChatSite(u, sc, b) : u \in Urls, sc \in SiteScopes,
                                           b \in BOOLEAN}]
  /\ checks = [s \in Sites |-> <<>>]
  /\ incidents = [s \in Sites |-> <<>>]
  /\ timers = [k \in Keys |-> NoTimer]
  /\ cleanupTimer = FALSE
  /\ leaked = 0
  /\ chain = [c \in Chains |-> Idle]
  /\ calls = 0
  /\ stopped = FALSE
  /\ notified = [s \in Sites |-> <<>>]
  /\ failures = 0
  /\ now = 0
  /\ wa = Unused
  /\ invocation \in {Call("toggleCmd", <<sc, d, b>>) :
                        sc \in SenderScopes, d \in Domains, b \in BOOLEAN}

NextChat ==
  \/ ToggleFind
  \/ ToggleUpdate
  \/ \E s \in Sites : \E sc \in SiteScopes : Reassign(s, sc)
  \/ \E s \in Sites, b \in BOOLEAN : SetActive(s, b)
  \/ \E s \in Sites : DeleteSite(s)

SpecChat == InitChat /\ [][NextChat]_vars

\* ------------------------------------------------------------- vocabulary
\* The chains of a site: pending timers and running ticks.
ChainsOf(s) == {c \in Chains : chain[c].pc # "none" /\ chain[c].site = s}

\* The executions of performCheck for a site that have not returned.
ChecksOf(s) == {c \in Chains : chain[c].pc \in PerformPcs /\ chain[c].site = s}

\* The row findUnique would give is missing or has isActive = false.
Gone(s) == ~website[s].exists \/ ~website[s].isActive

\* Chain c takes a step.
Steps(c) == chain'[c] # chain[c]

\* The tick of chain c ends in this step because an awaited database call
\* rejected: an injected failure, or the update of a row that was deleted.
Rejects(c) ==
  /\ Steps(c)
  /\ chain[c].pc \in RunningPcs
  /\ \/ failures' = failures + 1
     \/ chain[c].pc = "site_update" /\ ~website[chain[c].site].exists

\* performCheck of chain c returns in this step.
Returns(c) ==
  /\ Steps(c)
  /\ chain[c].pc \in PerformPcs
  /\ chain'[c].pc \notin PerformPcs
  /\ ~Rejects(c)

\* The handles in the map are pending timers of the key's kind and site.
TimersLive == \A k \in Keys : timers[k] # NoTimer => Live(k)

\* ------------------------------------------------------------------ claims
\* C1: in every reachable state each site has at most one Incident whose
\* resolvedAt is null.
AtMostOneOpenIncident ==
  \A s \in Sites : Cardinality(OpenIncidents(s)) <= 1

\* C2: each site has at most one timer chain: never two pending timers, nor
\* a pending timer together with a running check that will re-arm.
OneChainPerSite ==
  \A s \in Sites : Cardinality(ChainsOf(s)) <= 1

\* C3: two executions of performCheck for the same site never overlap.
NoOverlappingChecks ==
  \A s \in Sites : Cardinality(ChecksOf(s)) <= 1

\* C4: when a persistence operation on the Check, Website or Incident table
\* fails inside a tick, the next timer of that site is still armed.
RearmedAfterFailure ==
  [][\A c \in Chains :
       ( /\ Steps(c)
         /\ chain[c].pc \in {"check_create", "site_update", "inc_create",
                              "inc_find", "inc_update"}
         /\ failures' = failures + 1 )
       => chain'[c].pc = "armed"]_vars

\* C5 as claimed: a check that completes when its site is deactivated or
\* deleted does not arm a new timer.
NoRearmWhenGone ==
  [][\A c \in Chains :
       (Returns(c) /\ Gone(chain[c].site)) => chain'[c].pc # "armed"]_vars

\* C5 as amended: a check that returns without a rejected database call
\* arms one timer under the key `<id>` whatever the site's row says, also
\* when the site is deactivated or deleted by then.
RearmsWhateverTheRow ==
  [][\A c \in Chains :
       Returns(c) =>
         /\ chain'[c] = ArmedFor("next", chain[c].site,
                                 chain[c].interval * 1000)
         /\ timers'[<<"next", chain[c].site>>] = c]_vars

\* A timer armed by a check that returned after its site was deactivated or
\* deleted: the restart that followed the write cleared every timer of
\* the map, so a pending `<id>` timer held in the map was armed after it.
RearmedWhileGone ==
  \E c \in Chains :
    /\ chain[c].pc = "armed"
    /\ chain[c].key = "next"
    /\ timers[<<"next", chain[c].site>>] = c
    /\ Gone(chain[c].site)

\* C6: after stopMonitor and until the next startMonitor every timer chain
\* is stopped: no timer armed by scheduleCheck fires for an active site, so
\* no new check, and with it no new probe, is started, whatever check was in
\* flight at the call.
NoCheckStartsWhileStopped ==
  [][(stopped /\ stopped') =>
       \A c \in Chains :
         ~( /\ chain[c].pc = "armed"
            /\ chain[c].key = "next"
            /\ chain'[c].pc = "sc_find"
            /\ ~Gone(chain[c].site) )]_vars

\* C7: when a timer has fired and the re-read of line 48 returns a missing or
\* inactive row, no probe is run, no Check row is written, no timer is armed,
\* and the chain is over.
StopsWhenGone ==
  [][\A c \in Chains :
       (Steps(c) /\ ~Rejects(c) /\ chain[c].pc = "sc_find" /\ Gone(chain[c].site)) =>
         /\ chain'[c].pc = "none"
         /\ checks' = checks
         /\ \A d \in Chains : chain'[d].pc = "armed" => chain[d].pc = "armed"
         /\ timers'[<<"next", chain[c].site>>] = NoTimer]_vars

\* A timer has fired and the site it is for is missing or inactive.
FiredWhenGone ==
  \E c \in Chains : chain[c].pc = "sc_find" /\ Gone(chain[c].site)

\* C8: an Incident is created if and only if a check finds previousStatus
\* 'up' and the probe result 'down'; that check creates exactly one, with no
\* end timestamp.
IncidentIffDownTransition ==
  [][/\ \A s \in Sites :
          incidents'[s] # incidents[s] /\ Len(incidents'[s]) # Len(incidents[s]) =>
            /\ incidents'[s] = Append(incidents[s], incidents'[s][Len(incidents'[s])])
            /\ incidents'[s][Len(incidents'[s])].resolvedAt = NoTime
            /\ \E c \in Chains :
                 /\ Steps(c)
                 /\ chain[c].site = s
                 /\ chain[c].pc = "inc_create"
                 /\ chain[c].prev = "up" /\ chain[c].status = "down"
     /\ \A c \in Chains :
          Returns(c) =>
            IF chain[c].prev = "up" /\ chain[c].status = "down"
            THEN /\ chain[c].inc > chain[c].base
                 /\ chain[c].inc <= Len(incidents[chain[c].site])
            ELSE chain[c].pc \notin {"inc_create", "fresh_down", "notify_down"}
    ]_vars

\* A check that found 'up' then 'down' has just created its Incident.
IncidentCreated ==
  \E c \in Chains :
    /\ chain[c].pc = "fresh_down"
    /\ chain[c].prev = "up"
    /\ chain[c].inc = Len(incidents[chain[c].site])

\* C9: every Incident opened for a site is resolved by the first later
\* check of the site whose probe result is 'up', and by no other event.
\* Stated on the step that ends a check which has written the status 'up',
\* with no other check of the site running: the Incidents that were open
\* when it began are resolved by then.
ResolvedByFirstUpCheck ==
  [][/\ \A c \in Chains :
          ( /\ Steps(c)
            /\ chain[c].status = "up"
            /\ chain[c].pc \in {"site_update", "inc_find", "inc_update",
                                 "fresh_up", "notify_up"}
            /\ chain'[c].pc \notin PerformPcs
            /\ website'[chain[c].site].lastStatus = "up"
            /\ ChecksOf(chain[c].site) = {c} )
          => \A i \in 1..chain[c].base :
               incidents'[chain[c].site][i].resolvedAt # NoTime
     /\ \A s \in Sites : \A i \in 1..Len(incidents[s]) :
          incidents'[s][i].resolvedAt # incidents[s][i].resolvedAt =>
            \E c \in Chains :
              /\ Steps(c)
              /\ chain[c].site = s /\ chain[c].inc = i
              /\ chain[c].pc = "inc_update" /\ chain[c].status = "up"
    ]_vars

\* C10 as claimed: every check that observes a down -> up transition and
\* returns has invoked the Notifier with an up event.
UpNotifiedOnEveryUpTransition ==
  [][\A c \in Chains :
       (Returns(c) /\ chain[c].prev = "down" /\ chain[c].status = "up")
       => chain[c].pc = "notify_up"]_vars

\* C10 as amended: a check that resolved an Incident and still finds the
\* site's row invokes the Notifier with one up event carrying the duration
\* it wrote to that Incident; no other step invokes it with an up event.
UpNotifiedWhenResolved ==
  [][/\ \A c \in Chains :
          (Steps(c) /\ chain[c].pc = "inc_update" /\ ~Rejects(c)) =>
            incidents'[chain[c].site][chain[c].inc].duration = chain[c].dur
     /\ \A c \in Chains :
          ( /\ Steps(c) /\ chain[c].pc = "fresh_up" /\ ~Rejects(c)
            /\ website[chain[c].site].exists ) =>
            LET old == notified[chain[c].site]
                new == notified'[chain[c].site]
            IN /\ Len(new) = Len(old) + 1
               /\ SubSeq(new, 1, Len(old)) = old
               /\ new[Len(new)].event = "up"
               /\ new[Len(new)].downtime = chain[c].dur
     /\ \A s \in Sites :
          ( /\ Len(notified'[s]) # Len(notified[s])
            /\ notified'[s][Len(notified'[s])].event = "up" ) =>
            \E c \in Chains :
              Steps(c) /\ chain[c].site = s /\ chain[c].pc = "fresh_up"
    ]_vars

\* The Notifier was invoked with an up event for an outage that lasted.
UpNotified ==
  \E s \in Sites : \E i \in 1..Len(notified[s]) :
    notified[s][i].event = "up" /\ notified[s][i].downtime > 0

\* C12: a check whose (previous status, new status) pair is up -> up,
\* down -> down, unknown -> up or unknown -> down creates no Incident,
\* changes no Incident and invokes no notification: none of its steps
\* touches the Incident table or the Notifier, and after the update of the
\* Website row it returns without entering either transition branch.
QuietCheckLeavesIncidents ==
  [][\A c \in Chains :
       ( /\ Steps(c)
         /\ chain[c].pc \in PerformPcs \ {"pc_find", "fetch"}
         /\ <<chain[c].prev, chain[c].status>> \in
              {<<"up", "up">>, <<"down", "down">>,
               <<"unknown", "up">>, <<"unknown", "down">>} )
       => /\ incidents' = incidents
          /\ notified' = notified
          /\ chain[c].pc \in {"check_create", "site_update"}
          /\ chain'[c].pc \in {"site_update", "armed", "none"}]_vars

\* A down -> down check is about to update the Website row while an
\* Incident of the site is open.
QuietCheckUnderOpenIncident ==
  \E c \in Chains :
    /\ chain[c].pc = "site_update"
    /\ chain[c].prev = "down" /\ chain[c].status = "down"
    /\ OpenIncidents(chain[c].site) # {}

\* C13: for every Incident, duration is set exactly when resolvedAt is set,
\* and then it is resolvedAt minus startedAt in whole seconds, never
\* negative.
DurationMatchesResolution ==
  \A s \in Sites : \A i \in 1..Len(incidents[s]) :
    LET inc == incidents[s][i] IN
    /\ (inc.duration = NoTime) <=> (inc.resolvedAt = NoTime)
    /\ inc.resolvedAt # NoTime =>
         /\ inc.duration = inc.resolvedAt - inc.startedAt
         /\ inc.duration >= 0

\* An Incident that started after time 0 has been resolved.
ResolvedLateIncident ==
  \E s \in Sites : \E i \in 1..Len(incidents[s]) :
    /\ incidents[s][i].startedAt > 0
    /\ incidents[s][i].resolvedAt # NoTime

\* C16: the retention timer is unaffected by restarts and stops: once it is
\* set, no startMonitor or stopMonitor call cancels it.
RetentionSurvivesRestart ==
  [][cleanupTimer => cleanupTimer']_vars

\* C17: at any time at most one retention timer is active.
AtMostOneRetentionTimer ==
  (IF cleanupTimer THEN 1 ELSE 0) + leaked <= 1

\* C19: a startMonitor call cancels every timer that existed before it: the
\* stopMonitor() that opens the call leaves no timer pending.
StartMonitorCancelsAll ==
  [][calls' = calls + 1 =>
       \A c \in Chains : chain[c].pc = "armed" => chain'[c].pc = "none"]_vars

\* C20: every step that creates, deletes, activates or deactivates a site
\* runs startMonitor in the same continuation, which cancels the timers of
\* the map and the retention timer and suspends at findMany; and every
\* startMonitor call that resumes arms a first-check timer for each site
\* that is active then, before the handler awaiting it returns.
RestartOnStructuralChange ==
  [][/\ (\E s \in Sites : Gone(s)' # Gone(s) \/ website'[s].exists # website[s].exists)
        => /\ calls' = calls + 1
           /\ \A k \in Keys : timers'[k] = NoTimer
           /\ ~cleanupTimer'
           /\ \A k \in Keys : Live(k) => chain'[timers[k]].pc = "none"
     /\ calls' = calls - 1
        => \A s \in ActiveSites :
             /\ timers'[<<"init", s>>] # NoTimer
             /\ chain'[timers'[<<"init", s>>]] = Armed("init", s)
    ]_vars

\* A site has been deactivated and the restart that follows is suspended at
\* its findMany.
RestartPendingAfterDeactivation ==
  \E s \in Sites : website[s].exists /\ ~website[s].isActive /\ calls > 0

ProbeResultPersisted ==
  [][/\ \A c \in Chains :
          LET s == chain[c].site IN
          /\ (Steps(c) /\ chain[c].pc = "probe")
               => chain'[c].pc = "check_create"
          /\ (Steps(c) /\ chain[c].pc = "check_create" /\ ~Rejects(c))
               => /\ Len(checks'[s]) = Len(checks[s]) + 1
                  /\ SubSeq(checks'[s], 1, Len(checks[s])) = checks[s]
                  /\ LET r == checks'[s][Len(checks'[s])] IN
                     /\ r.status = chain[c].status
                     /\ r.statusCode = chain[c].code
                     /\ r.responseTime = chain[c].ms
                     /\ r.errorMessage = chain[c].err
                     /\ r.checkedAt = now
                     /\ chain'[c].at = r.checkedAt
                  /\ chain'[c].pc = "site_update"
          /\ (Steps(c) /\ chain[c].pc = "site_update" /\ ~Rejects(c))
               => /\ website'[s].lastStatus = chain[c].status
                  /\ website'[s].lastResponseMs = chain[c].ms
                  /\ website'[s].lastCheckedAt = chain[c].at
     /\ \A s \in Sites :
          checks'[s] # checks[s]
            => \E c \in Chains : /\ chain[c].pc = "check_create"
                                 /\ chain[c].site = s
                                 /\ Steps(c)
    ]_vars

\* C14 (witness): a later check that found the status unchanged has written
\* its row and is about to update the site's row.
UnchangedStatusUpdatePending ==
  \E c \in Chains :
    LET s == chain[c].site IN
    /\ chain[c].pc = "site_update"
    /\ website[s].exists
    /\ chain[c].status = website[s].lastStatus
    /\ website[s].lastCheckedAt # NoTime
    /\ chain[c].at > website[s].lastCheckedAt

\* C15: whatever the outcome of the send, a notification that was attempted
\* ends with the site's next check armed, as after a successful send.
SendFailureDoesNotStopScheduling ==
  [][\A c \in Chains :
       (Steps(c) /\ chain[c].pc \in {"notify_down", "notify_up"}
          /\ ~Rejects(c))
         => /\ chain'[c] = ArmedFor("next", chain[c].site,
                                    chain[c].interval * 1000)
            /\ timers'[<<"next", chain[c].site>>] = c
            /\ failures' = failures
    ]_vars

\* C15 (witness): a send has failed and the next check of the site is armed.
ArmedAfterFailedSend ==
  \E s \in Sites :
    /\ \E i \in DOMAIN notified[s] : notified[s][i].sent = "failed"
    /\ \A i \in DOMAIN notified[s] : notified[s][i].sent # "pending"
    /\ \E c \in Chains : /\ chain[c].pc = "armed"
                          /\ chain[c].key = "next"
                          /\ chain[c].site = s
                          /\ timers[<<"next", s>>] = c

NextArmedWithCurrentInterval ==
  [][\A c \in Chains :
       LET s == chain[c].site IN
       (chain[c].pc \in PerformPcs /\ chain'[c].pc = "armed"
          /\ website'[s].exists)
         => chain'[c].delay = website'[s].checkInterval * 1000
    ]_vars

\* C22: while the probe of one site has not completed, the pending timer of
\* any other site can fire and start that site's check.
PendingProbeBlocksNoOtherSite ==
  \A c, d \in Chains :
    (/\ chain[c].pc = "fetch"
     /\ chain[d].pc = "armed"
     /\ chain[d].site # chain[c].site
     /\ Budgeted < MaxChecks)
      => ENABLED Fire(d)

\* C22 (witness): the probes of two sites are in flight together, the
\* second site's check having started after the first site's probe.
TwoProbesInFlight ==
  \E c, d \in Chains :
    /\ chain[c].pc = "fetch" /\ chain[d].pc = "fetch"
    /\ chain[c].site # chain[d].site

\* C23: a step that changes lastStatus, lastCheckedAt or lastResponseMs of a
\* site's row, or adds a Check or an Incident row, is a step of a check in
\* performCheck; a row created from the dashboard starts as never checked.
\* So no dashboard request and no chat command does any of these.
SchedulerIsSoleWriter ==
  [][\A s \in Sites :
       /\ (/\ website[s].exists /\ website'[s].exists
           /\ \/ website'[s].lastStatus # website[s].lastStatus
              \/ website'[s].lastCheckedAt # website[s].lastCheckedAt
              \/ website'[s].lastResponseMs # website[s].lastResponseMs)
            => \E c \in Chains : /\ chain[c].site = s
                                 /\ chain[c].pc = "site_update"
                                 /\ chain'[c] # chain[c]
       /\ (~website[s].exists /\ website'[s].exists)
            => /\ website'[s].lastStatus = "unknown"
               /\ website'[s].lastCheckedAt = NoTime
               /\ website'[s].lastResponseMs = NoMs
       /\ Len(checks'[s]) > Len(checks[s])
            => \E c \in Chains : /\ chain[c].site = s
                                 /\ chain[c].pc = "check_create"
                                 /\ chain'[c] # chain[c]
       /\ Len(incidents'[s]) > Len(incidents[s])
            => \E c \in Chains : /\ chain[c].site = s
                                 /\ chain[c].pc = "inc_create"
                                 /\ chain'[c] # chain[c]
       /\ (calls' = calls + 1 /\ website'[s].exists /\ website[s].exists)
            => /\ website'[s].lastStatus = website[s].lastStatus
               /\ website'[s].lastCheckedAt = website[s].lastCheckedAt
               /\ website'[s].lastResponseMs = website[s].lastResponseMs
               /\ checks'[s] = checks[s]
               /\ incidents'[s] = incidents[s]
    ]_vars

\* C23 (witness): a site that was checked up and then down has been paused
\* from the dashboard or the chat; its status fields are as the second
\* check left them.
PausedAfterCheck ==
  \E s \in Sites :
    /\ website[s].exists /\ ~website[s].isActive
    /\ website[s].lastStatus = "down"
    /\ website[s].lastCheckedAt # NoTime
    /\ Len(checks[s]) = 2 /\ Len(incidents[s]) = 1

\* C24: the step that takes the outcome of the fetch leaves the check with
\* 'up' and no error message for an HTTP status below 400; with 'down', the
\* code and 'HTTP <code>' for a status of 400 or more; with 'down', no code
\* and 'Timeout (15s)' for a timeout; and with 'down', no code and the
\* transport's error text for any other failure.
ProbeClassifiedByRule ==
  [][\A c \in Chains : \A resp \in Responses :
       Probe(c, resp) =>
         LET r == chain'[c] IN
         /\ (resp.kind = "http" /\ resp.code < 400)
              => (r.status = "up" /\ r.err = NoText)
         /\ (resp.kind = "http" /\ resp.code >= 400)
              => /\ r.status = "down"
                 /\ r.code = resp.code
                 /\ r.err = "HTTP " \o ToString(resp.code)
         /\ resp.kind = "abort"
              => (r.status = "down" /\ r.code = NoCode /\ r.err = "Timeout (15s)")
         /\ resp.kind = "error"
              => (r.status = "down" /\ r.code = NoCode /\ r.err = resp.message)
    ]_vars

\* C24 (witness): one site's table holds a row of a 399 answer, a row of a
\* 400 answer and a row of a timeout.
ThreeClassesRecorded ==
  \E s \in Sites :
    /\ \E i \in DOMAIN checks[s] :
         checks[s][i].statusCode = 399 /\ checks[s][i].status = "up"
    /\ \E i \in DOMAIN checks[s] :
         checks[s][i].statusCode = 400 /\ checks[s][i].errorMessage = "HTTP 400"
    /\ \E i \in DOMAIN checks[s] :
         checks[s][i].statusCode = NoCode /\ checks[s][i].errorMessage = "Timeout (15s)"

\* C28: for n seconds, formatDuration returns '<n>s' when n < 60; when
\* 60 <= n < 3600, '<m>m <s>s' with m the whole minutes and s the seconds
\* left, or '<m>m' when none is left; when n >= 3600, '<h>h <m>m' with h the
\* whole hours and m the whole minutes left, or '<h>h' when none is left.
\* 125 gives '2m 5s'.
DurationRendered ==
  (invocation.fn = "formatDuration" /\ invocation.returned) =>
    LET n == invocation.args[1]
        text == invocation.result
    IN /\ n < 60 => text = ToString(n) \o "s"
       /\ (60 <= n /\ n < 3600) =>
            \E m \in 1..59, s \in 0..59 :
              /\ n = 60 * m + s
              /\ s # 0 => text = ToString(m) \o "m " \o ToString(s) \o "s"
              /\ s = 0 => text = ToString(m) \o "m"
       /\ n >= 3600 =>
            \E h \in 1..(n \div 3600), m \in 0..59, s \in 0..59 :
              /\ n = 3600 * h + 60 * m + s
              /\ m # 0 => text = ToString(h) \o "h " \o ToString(m) \o "m"
              /\ m = 0 => text = ToString(h) \o "h"
       /\ n = 125 => text = "2m 5s"

\* C28 (witness): formatDuration has returned for one hour and one second,
\* where both the minutes and the seconds are left out.
HourAndASecondRendered ==
  /\ invocation.fn = "formatDuration" /\ invocation.returned
  /\ invocation.args[1] = 3601
  /\ invocation.result = "1h"

\* C25 (as stated): resolveTemplate returns the site's own template if it
\* is non-empty; otherwise the value of the Setting row of the event kind if
\* there is such a row; otherwise the built-in text.
TemplateResolvedBySettingPresence ==
  (invocation.fn = "resolveTemplate" /\ invocation.returned) =>
    LET own == invocation.args[1]
        row == invocation.args[4][invocation.args[2]]
        builtIn == invocation.args[3]
    IN invocation.result =
         IF own # Null /\ own # <<>> THEN own
         ELSE IF row # Null THEN row
         ELSE builtIn

\* C25 (amended): resolveTemplate returns the site's own template if it is
\* non-empty; otherwise the value of the Setting row of the event kind if
\* there is such a row and its value is non-empty; otherwise the built-in
\* text.  The text returned is one of the three, unmodified.
TemplateResolvedByPrecedence ==
  (invocation.fn = "resolveTemplate" /\ invocation.returned) =>
    LET own == invocation.args[1]
        row == invocation.args[4][invocation.args[2]]
        builtIn == invocation.args[3]
    IN invocation.result =
         IF own # Null /\ own # <<>> THEN own
         ELSE IF row # Null /\ row # <<>> THEN row
         ELSE builtIn

\* C25 (witness): the site has no template of its own, the Setting row of
\* the event kind is there with an empty value, and the built-in down text
\* was returned.
EmptySettingFellThrough ==
  /\ invocation.fn = "resolveTemplate" /\ invocation.returned
  /\ invocation.args[1] = Null
  /\ invocation.args[2] = "defaultDownTemplate"
  /\ invocation.args[4]["defaultDownTemplate"] = <<>>
  /\ invocation.result = DEFAULT_DOWN_TEMPLATE

\* C26: sendNotification, for a site with an empty notifyTarget, makes no
\* send call and throws nothing; with a target and notifyType 'group' it
\* makes exactly one call, of sendToGroup; with a target and any other
\* notifyType exactly one call, of sendToNumber; the call carries the
\* site's target and the message.
SentByRouting ==
  (invocation.fn = "sendNotification" /\ invocation.returned) =>
    LET site == invocation.args[1]
        done == invocation.result
    IN /\ site.notifyTarget = "" => (done.sends = <<>> /\ ~done.raised)
       /\ (site.notifyTarget # "" /\ site.notifyType = "group") =>
            /\ Len(done.sends) = 1
            /\ done.sends[1].via = "sendToGroup"
            /\ done.sends[1].to = site.notifyTarget
            /\ done.sends[1].text = invocation.args[2]
       /\ (site.notifyTarget # "" /\ site.notifyType # "group") =>
            /\ Len(done.sends) = 1
            /\ done.sends[1].via = "sendToNumber"
            /\ done.sends[1].to = site.notifyTarget
            /\ done.sends[1].text = invocation.args[2]

\* C26 (witness): sendNotification has returned for a site of notifyType
\* 'group' without a target, and made no call.
GroupWithoutTargetSilent ==
  /\ invocation.fn = "sendNotification" /\ invocation.returned
  /\ invocation.args[1].notifyType = "group"
  /\ invocation.args[1].notifyTarget = ""
  /\ invocation.result.sends = <<>>

\* C27: the text renderTemplate returns is the template with every
\* placeholder -- a `{`, one or more identifier characters and a `}` --
\* replaced by the map's value for the identifier, or by nothing when the
\* identifier is not in the map, and every other character kept.
RECURSIVE Substituted(_, _, _)
Substituted(template, map, i) ==
  IF i > Len(template) THEN <<>>
  ELSE LET ends == {j \in (i + 2)..Len(template) :
                      /\ template[i] = "{"
                      /\ template[j] = "}"
                      /\ \A k \in (i + 1)..(j - 1) : template[k] \in WordChars}
       IN IF ends = {}
          THEN <<template[i]>> \o Substituted(template, map, i + 1)
          ELSE LET j == CHOOSE j \in ends : TRUE
                   identifier == Join(SubSeq(template, i + 1, j - 1))
               IN (IF identifier \in DOMAIN map THEN map[identifier] ELSE <<>>)
                    \o Substituted(template, map, j + 1)

PlaceholdersSubstituted ==
  (invocation.fn = "renderTemplate" /\ invocation.returned) =>
    invocation.result = Substituted(invocation.args[1], invocation.args[2], 1)

\* C29 (as stated): with N active sites, the delay of the first check of
\* the site at index i is exactly i times (the minimum checkInterval
\* divided by N).
FirstChecksExactlyStaggered ==
  (invocation.fn = "startMonitor" /\ invocation.returned) =>
    LET intervals == invocation.args[1]
        N == Len(intervals)
        shortest == MinOf({intervals[k] : k \in 1..N})
    IN \A i \in 0..(N - 1) :
         N * invocation.result[i + 1] = i * shortest * 1000

\* C29 (amended): the delay is a whole number of milliseconds that is not
\* more than i times (the minimum checkInterval divided by N) and less than
\* that by at most one millisecond; three sites with interval 30 s get 0 s,
\* 10 s and 20 s.
FirstChecksStaggeredToTheMillisecond ==
  (invocation.fn = "startMonitor" /\ invocation.returned) =>
    LET intervals == invocation.args[1]
        N == Len(intervals)
        shortest == MinOf({intervals[k] : k \in 1..N})
    IN /\ \A i \in 0..(N - 1) :
            /\ N * invocation.result[i + 1] <= i * shortest * 1000
            /\ i * shortest * 1000 <= N * (invocation.result[i + 1] + 1)
       /\ intervals = <<30, 30, 30>> => invocation.result = <<0, 10000, 20000>>

\* C29 (witness): startMonitor has set the first timers of 14 sites with
\* interval 60 s; the site at index 7 got 29 999 ms and the one at index 1
\* got 4 285 ms.
FourteenSitesStaggered ==
  /\ invocation.fn = "startMonitor" /\ invocation.returned
  /\ invocation.args[1] = [k \in 1..14 |-> 60]
  /\ invocation.result[8] = 29999
  /\ invocation.result[2] = 4285

\* C30: in every state, the Check rows of a site, in the order they were
\* written, have checkedAt timestamps that never decrease.
CheckRowsInTimeOrder ==
  \A s \in Sites :
    \A i, j \in DOMAIN checks[s] :
      i < j => checks[s][i].checkedAt <= checks[s][j].checkedAt

\* C30 (witness): a site has a row written at time 0 and a later row
\* written at time 1, while two checks of it are under way at once.
RowsOfOverlappingChecks ==
  \E s \in Sites :
    /\ Len(checks[s]) >= 2
    /\ checks[s][1].checkedAt = 0
    /\ checks[s][Len(checks[s])].checkedAt = 1
    /\ \E c, d \in Chains :
         /\ c # d
         /\ chain[c].site = s /\ chain[d].site = s
         /\ chain[c].pc \in PerformPcs /\ chain[d].pc \in PerformPcs

\* C31: whenever no check of a site is under way, the site has no more
\* Incidents marked downNotified than down events that were sent, and no
\* more marked upNotified than up events that were sent: a flag is true
\* only if the notification of its Incident went out.
FlagsOnlyWhenSent ==
  \A s \in Sites :
    (\A c \in Chains : chain[c].site = s => chain[c].pc \notin RunningPcs) =>
      /\ Cardinality({i \in DOMAIN incidents[s] : incidents[s][i].downNotified})
           <= Cardinality({k \in DOMAIN notified[s] :
                             /\ notified[s][k].event = "down"
                             /\ notified[s][k].sent = "sent"})
      /\ Cardinality({i \in DOMAIN incidents[s] : incidents[s][i].upNotified})
           <= Cardinality({k \in DOMAIN notified[s] :
                             /\ notified[s][k].event = "up"
                             /\ notified[s][k].sent = "sent"})

\* C32: the Notifier invocations of a site, in order, are a down event, an
\* up event, a down event, and so on: the odd ones are down events and the
\* even ones up events.
NotificationsAlternate ==
  \A s \in Sites :
    \A k \in DOMAIN notified[s] :
      notified[s][k].event = IF k % 2 = 1 THEN "down" ELSE "up"

\* C33: whenever no check of a site is under way, the site has an open
\* Incident only if its lastStatus is 'down'.
OpenIncidentOnlyWhenDown ==
  \A s \in Sites :
    ( /\ website[s].exists
      /\ \A c \in Chains : chain[c].site = s => chain[c].pc \notin RunningPcs
      /\ \E i \in DOMAIN incidents[s] : incidents[s][i].resolvedAt = NoTime )
    => website[s].lastStatus = "down"

\* C34: whenever no check of a site is under way, the site's lastStatus is
\* the status of the Check row written last for it, or 'unknown' when none
\* was written.
LastStatusIsLatestCheck ==
  \A s \in Sites :
    ( /\ website[s].exists
      /\ \A c \in Chains : chain[c].site = s => chain[c].pc \notin RunningPcs )
    => website[s].lastStatus =
         IF checks[s] = <<>> THEN "unknown"
         ELSE checks[s][Len(checks[s])].status

\* C35: with the site active and no further restart, whenever no check of
\* the site is under way -- none has started yet, or the last one has
\* completed or failed -- and the number of checks in one behaviour is not
\* used up, a check of the site eventually starts.
ProbedAgainAfterEveryCheck ==
  \A s \in Seeded :
    []( ( /\ website[s].exists /\ website[s].isActive
          /\ \A c \in Chains : chain[c].site = s => chain[c].pc \notin RunningPcs
          /\ Budgeted < MaxChecks )
        => <>(\E c \in Chains : chain[c].site = s /\ chain[c].pc = "fetch") )

\* C39: in every state of the connection, connectedNumber is set only
\* while the state is 'connected'.
NumberOnlyWhileConnected ==
  wa.connectedNumber # "null" => wa.state = "connected"

\* C37: a socket is made only while shouldReconnect is set or disconnect()
\* has not yet completed: once disconnect() has completed, no connection is
\* attempted before reconnect() or initWhatsApp() is called.
NoConnectAfterDisconnect ==
  [][wa'.made > wa.made => (wa.shouldReconnect \/ wa.logout)]_vars

\* C36: a notification whose send is attempted while there is no socket or
\* the state is not 'connected' sends nothing and raises nothing (nothing
\* is recorded as sent or failed, and the check goes on to rearm the
\* site's timer); and a notification whose one attempt has ended is never
\* attempted again: what was not sent stays unsent in every later step.
UnsentStaysUnsent ==
  [][/\ \A c \in Chains :
          (/\ chain[c].pc \in {"notify_down", "notify_up"}
           /\ chain'[c].pc \notin {"notify_down", "notify_up"}
           /\ (wa.sock = 0 \/ wa.state # "connected"))
          => /\ notified'[chain[c].site][chain[c].ev].sent = "none"
             /\ chain'[c] = ArmedFor("next", chain[c].site,
                                     chain[c].interval * 1000)
      /\ \A s \in Sites : \A i \in DOMAIN notified[s] :
          notified[s][i].sent # "pending"
          => /\ i \in DOMAIN notified'[s]
             /\ notified'[s][i] = notified[s][i]]_vars

\* The down notification was attempted while disconnected; the connection
\* has since come up and a later check of the site has completed, and the
\* notification is still unsent.
LostWhileDisconnected ==
  \E s \in Sites :
     /\ Len(notified[s]) = 1
     /\ notified[s][1].event = "down"
     /\ notified[s][1].sent = "none"
     /\ Len(checks[s]) = 3
     /\ wa.sock # 0
     /\ wa.state = "connected"

\* C38: every step of a /on or /off command changes at most one site, of
\* that site only isActive, and the site's notifyType and notifyTarget are
\* the sender's scope; and when the domain matches no site or several
\* sites of the scope, or the one match already has the requested state,
\* the command ends with no site changed and no restart of the scheduler.
ToggleChangesOnlyOwnSite ==
  [][invocation' # invocation =>
       LET scope   == invocation.args[1]
           domain  == invocation.args[2]
           active  == invocation.args[3]
           matches == Matches(scope, domain)
           Changed == {s \in Sites : website'[s] # website[s]}
       IN /\ Cardinality(Changed) <= 1
          /\ \A s \in Changed :
                /\ website'[s] = [website[s] EXCEPT !.isActive = active]
                /\ website[s].notifyType = scope.notifyType
                /\ website[s].notifyTarget = scope.notifyTarget
          /\ (/\ invocation.result = <<>>
              /\ \/ Cardinality(matches) # 1
                 \/ \E s \in matches : website[s].isActive = active)
             => /\ invocation'.returned
                /\ Changed = {}
                /\ UNCHANGED <<calls, chain, timers, cleanupTimer>>]_vars

====
